---------------------------- MODULE Spec2Model ----------------------------
(***************************************************************************)
(* HA-Log-Debugger-AI: the log tailer with its start, stop and I/O errors   *)
(* (log_monitor.py), the per-entry pipeline (main.py), the processed-set   *)
(* and recommendation store (database.py) and the analyzer's grouping,     *)
(* batch loop and reading of the service's response (ai_analyzer.py), the  *)
(* line parser with its two patterns (log_monitor.py), the web search      *)
(* (web_search.py), the routes that store and resolve recommendations      *)
(* (web_interface.py) and the pipeline's configuration (main.py).          *)
(*                                                                         *)
(* Strings are sequences of one-character strings.  A LogLevel value is    *)
(* kept as one token ("ERROR"): no level name contains ":" and none is a   *)
(* prefix of another, so a level is always recovered from the front of a   *)
(* formatted string.  md5 and Python's hash() are taken to be injective:   *)
(* a digest is modelled by the string it digests.                          *)
(***************************************************************************)
EXTENDS Integers, Sequences, FiniteSets, TLC

VARIABLES
    file,             \* content of the watched log file, one token per byte
    last_position,    \* LogMonitor.last_position
    observing,        \* LogMonitor.observer is started
    tasks,            \* the _process_new_lines coroutines on the event loop
    processed,        \* keys of the processed_logs table
    recommendations,  \* rows of the recommendations table
    delivered,        \* history: lines handed to the callback, in call order
    ai_calls,         \* history: number of reasoning-service calls made by the pipeline
    start_offset,     \* history: last_position as set by start()
    read_from,        \* history: the offset the last notification's read began at, -1 if it read nothing
    truncations,      \* history: how often the file was truncated
    writes,           \* history: how often the file was written to
    fp_in,            \* fingerprinting: a pair of entries
    fp_out,           \* fingerprinting: their generate_log_hash values
    fp_done,          \* fingerprinting: fp_out is computed
    grp_in,           \* grouping: the batch handed to _group_similar_entries
    grp_out,          \* grouping: the groups, as sequences of batch positions
    grp_done,         \* grouping: grp_out is computed
    an_in,            \* analyze_log_entries: its argument log_entries
    an_groups,        \* analyze_log_entries: grouped_entries
    an_idx,           \* analyze_log_entries: position of the group analysed next
    an_recs,          \* analyze_log_entries: the recommendations list
    an_resps,         \* history: what the reasoning service did for each group analysed
    an_raised,        \* history: an exception left analyze_log_entries
    an_pc,            \* analyze_log_entries: "idle", "loop" or "done"
    exists,           \* the log file exists
    start_result,     \* history: how the last start() ended, "none" before any call
    stops,            \* history: how often stop() was called
    faults,           \* history: how many notifications met an I/O error
    last_fault,       \* history: last_position and the file size at the last such error
    raised,           \* history: an exception left start(), stop() or _process_new_lines
    md_in,            \* _analyze_single_group: its argument log_entries
    md_resp,          \* _analyze_single_group: what the reasoning service does
    md_out,           \* _analyze_single_group: the Recommendation returned, if any
    md_done,          \* _analyze_single_group: md_out is computed
    ps_in,            \* _parse_log_line: its argument line, with the fields it was written from
    ps_out,           \* _parse_log_line: the LogEntry returned, if any
    ps_raised,        \* history: an exception left _parse_log_line
    ps_done,          \* _parse_log_line: ps_out is computed
    en_search,        \* _analyze_single_group: what the web search meets
    en_info,          \* _analyze_single_group: contextual_info
    en_context,       \* _analyze_single_group: what the prompt is written from
    en_calls,         \* history: calls of the reasoning service
    en_raised,        \* history: an exception left the web search's try statement
    en_pc,            \* _analyze_single_group: "start", "context" or "done"
    st_cleaned,       \* history: cleanup_old_logs deleted rows of processed_logs
    entry_faults,     \* history: the callbacks that met an exception, each with its
                      \* line and the last_position of that moment
    config,           \* HALogDebuggerAI.config: capture_all_logs and ai_analysis_levels
    pl_entry,         \* _process_log_entry: its argument log_entry, if it was called
    rt_request,       \* resolve_recommendation: its argument recommendation_id, 0 before any request
    rt_response       \* resolve_recommendation: the response to the request

vars == <<file, last_position, observing, tasks, processed, recommendations,
          delivered, ai_calls, start_offset, read_from, truncations, writes,
          fp_in, fp_out, fp_done, grp_in, grp_out, grp_done,
          an_in, an_groups, an_idx, an_recs, an_resps, an_raised, an_pc,
          exists, start_result, stops, faults, last_fault, raised,
          md_in, md_resp, md_out, md_done,
          ps_in, ps_out, ps_raised, ps_done,
          en_search, en_info, en_context, en_calls, en_raised, en_pc,
          st_cleaned, entry_faults, config, pl_entry, rt_request, rt_response>>

lcVars == <<exists, start_result, stops, faults, last_fault, raised>>

tailVars == <<file, last_position, observing, tasks, processed, recommendations,
              delivered, ai_calls, start_offset, read_from, truncations, writes,
              lcVars>>
fpVars == <<fp_in, fp_out, fp_done>>
grpVars == <<grp_in, grp_out, grp_done>>
anVars == <<an_in, an_groups, an_idx, an_recs, an_resps, an_raised, an_pc>>
mdVars == <<md_in, md_resp, md_out, md_done>>
psVars == <<ps_in, ps_out, ps_raised, ps_done>>

\* The variables of the operations specified after the response interpreter
enVars == <<en_search, en_info, en_context, en_calls, en_raised, en_pc>>
stVars == <<st_cleaned>>
cfVars == <<entry_faults>>
opVars == <<config, pl_entry, rt_request, rt_response>>
moreVars == <<psVars, enVars, stVars, cfVars, opVars>>

\* All of them but one group
notPs == <<enVars, stVars, cfVars, opVars>>
notEn == <<psVars, stVars, cfVars, opVars>>
notSt == <<psVars, enVars, cfVars, opVars>>
notCf == <<psVars, enVars, stVars, opVars>>

-----------------------------------------------------------------------------
(* Strings and entries *)

Min(a, b) == IF a < b THEN a ELSE b

\* s[:n]
Take(s, n) == SubSeq(s, 1, Min(n, Len(s)))

\* c * n
Rep(c, n) == [i \in 1..n |-> c]

\* Optional[str] = None: a value no string equals
None == <<"<None>">>

\* str(None), as an f-string formats it
NoneStr == <<"N", "o", "n", "e">>

\* f"{component}"
Str(component) == IF component = None THEN NoneStr ELSE component

LogEntry(level, component, message) ==
    [level |-> level, component |-> component, message |-> message]


LogLevels == {"DEBUG", "INFO", "WARNING", "ERROR", "CRITICAL"}

-----------------------------------------------------------------------------
(* Fingerprints and grouping keys *)

\* message[:100], the grouping window
GroupWindow == 100

\* message[:200], the window of the hash recorded on a recommendation
HashWindow == 200

\* LogMonitor.generate_log_hash: md5 of f"{level}:{component}:{message}"
generate_log_hash(log_entry) ==
    <<log_entry.level, ":">> \o Str(log_entry.component) \o <<":">> \o log_entry.message

\* AIAnalyzer._generate_group_hash: md5 of f"{level}:{component}:{message[:200]}"
\* of the group's first entry
generate_group_hash(log_entries) ==
    LET representative == log_entries[1]
    IN  <<representative.level, ":">> \o Str(representative.component) \o <<":">>
            \o Take(representative.message, HashWindow)

\* The key of _group_similar_entries: f"{level}:{component}" + f":{hash(message_key)}".
\* hash() yields an integer, whose digits hold no ":", so the key string splits in
\* one way only into the part up to its last ":" and the hash: the key is modelled
\* as that pair, the hash by the message_key it hashes.
GroupKey(entry) ==
    <<  <<entry.level, ":">> \o Str(entry.component) \o <<":">>,
        Take(entry.message, GroupWindow)  >>

KeyIndex(groups, key) ==
    {j \in 1..Len(groups) : groups[j].key = key}

\* GroupInsert with the append under an else: the entry that opens a group is lost
GroupInsertElseAppend(groups, key, i) ==
    IF KeyIndex(groups, key) = {}
    THEN Append(groups, [key |-> key, members |-> <<>>])
    ELSE LET j == CHOOSE x \in KeyIndex(groups, key) : TRUE
         IN  [groups EXCEPT ![j].members = Append(@, i)]

\* The loop body: groups[key] = [] when the key is new, then groups[key].append(entry).
\* A dict keeps its keys in insertion order.
GroupInsert(groups, key, i) ==
    IF KeyIndex(groups, key) = {}
    THEN Append(groups, [key |-> key, members |-> <<i>>])
    ELSE LET j == CHOOSE x \in KeyIndex(groups, key) : TRUE
         IN  [groups EXCEPT ![j].members = Append(@, i)]

RECURSIVE GroupFold(_, _)
GroupFold(log_entries, n) ==
    IF n = 0 THEN <<>>
    ELSE GroupInsert(GroupFold(log_entries, n - 1), GroupKey(log_entries[n]), n)

\* group_similar_entries with the groups in the reverse of their insertion order
group_similar_entries_reversed(log_entries) ==
    LET groups == GroupFold(log_entries, Len(log_entries))
    IN  [j \in 1..Len(groups) |-> groups[Len(groups) + 1 - j].members]

\* AIAnalyzer._group_similar_entries: list(groups.values()), each group given by the
\* positions of its entries in log_entries
group_similar_entries(log_entries) ==
    LET groups == GroupFold(log_entries, Len(log_entries))
    IN  [j \in 1..Len(groups) |-> groups[j].members]

\* A group as the entries it holds
GroupEntries(log_entries, group) ==
    [k \in 1..Len(group) |-> log_entries[group[k]]]

-----------------------------------------------------------------------------
(* Configuration, with main.py's defaults *)

\* CAPTURE_ALL_LOGS
capture_all_logs == TRUE

\* AI_ANALYSIS_LEVELS
ai_analysis_levels == {"WARNING", "ERROR", "CRITICAL"}

-----------------------------------------------------------------------------
(* The state each part is in while another part is exercised *)

MaxTasks == 2

TaskIds == 1..MaxTasks

\* A coroutine slot with no _process_new_lines running in it
IdleTask == [pc |-> "idle", new_lines |-> <<>>, recs |-> <<>>]

\* last_fault when no notification has met an I/O error
NoFault == [pos |-> -1, size |-> -1]

\* The tailer and the pipeline as constructed, whether or not the log file exists
TailFresh ==
    /\ file = <<>>
    /\ last_position = 0
    /\ observing = FALSE
    /\ tasks = [t \in TaskIds |-> IdleTask]
    /\ processed = {}
    /\ recommendations = <<>>
    /\ delivered = <<>>
    /\ ai_calls = 0
    /\ start_offset = 0
    /\ read_from = -1
    /\ truncations = 0
    /\ writes = 0
    /\ start_result = "none"
    /\ stops = 0
    /\ faults = 0
    /\ last_fault = NoFault
    /\ raised = FALSE

TailIdle ==
    /\ TailFresh
    /\ exists = TRUE

FpIdle ==
    /\ fp_in = <<>>
    /\ fp_out = <<>>
    /\ fp_done = FALSE

GrpIdle ==
    /\ grp_in = <<>>
    /\ grp_out = <<>>
    /\ grp_done = FALSE

AnIdle ==
    /\ an_in = <<>>
    /\ an_groups = <<>>
    /\ an_idx = 0
    /\ an_recs = <<>>
    /\ an_resps = <<>>
    /\ an_raised = FALSE
    /\ an_pc = "idle"

MdIdle ==
    /\ md_in = <<>>
    /\ md_resp = <<>>
    /\ md_out = <<>>
    /\ md_done = FALSE

NoLine == [format |-> "none", line |-> <<>>]

PsIdle ==
    /\ ps_in = NoLine
    /\ ps_out = <<>>
    /\ ps_raised = FALSE
    /\ ps_done = FALSE

EnIdle ==
    /\ en_search = [whole |-> "none", docs |-> [kind |-> "ok", results |-> <<>>],
                    issues |-> [kind |-> "ok", results |-> <<>>]]
    /\ en_info = [documentation |-> <<>>, issues |-> <<>>]
    /\ en_context = [entries |-> <<>>, documentation |-> <<>>, issues |-> <<>>]
    /\ en_calls = 0
    /\ en_raised = FALSE
    /\ en_pc = "start"

StIdle == st_cleaned = FALSE

CfIdle == entry_faults = <<>>

\* A response before any request
NoResponse == [status_code |-> 0, detail |-> ""]

\* The configuration of main.py's defaults, no entry processed and no request made
OpIdle ==
    /\ config = [capture_all_logs |-> capture_all_logs,
                 ai_analysis_levels |-> ai_analysis_levels]
    /\ pl_entry = <<>>
    /\ rt_request = 0
    /\ rt_response = NoResponse

MoreIdle == PsIdle /\ EnIdle /\ StIdle /\ CfIdle /\ OpIdle

-----------------------------------------------------------------------------
(* The log file and the line parser *)

\* The line terminator
NL == "\n"

\* One token for the text a pattern matches in front of the message:
\* "E" a full-format head, "2024-08-20 12:00:00 ERROR (MainThread) [c] ",
\* "I" a simple-format head, "2024-08-20 12:00:00 INFO ".
Headers == {"E", "I"}

\* A character of message text
MsgChars == {"m"}

FileChars == Headers \cup MsgChars \cup {NL}

Whitespace == {" ", NL}

RECURSIVE LStrip(_)
LStrip(s) ==
    IF s # <<>> /\ Head(s) \in Whitespace THEN LStrip(Tail(s)) ELSE s

RECURSIVE RStrip(_)
RStrip(s) ==
    IF s # <<>> /\ s[Len(s)] \in Whitespace THEN RStrip(SubSeq(s, 1, Len(s) - 1)) ELSE s

\* str.strip()
Strip(s) == RStrip(LStrip(s))

\* Whether log_pattern or simple_log_pattern matches: re.match anchors at the start
\* of the line, and the message group (.+) needs one character at least.
Parses(line) ==
    /\ Len(line) >= 2
    /\ line[1] \in Headers

\* LogMonitor._parse_log_line, for a line that Parses
parse_log_line(line) ==
    IF line[1] = "E"
    THEN LogEntry("ERROR", <<"c">>, Strip(Tail(line)))
    ELSE LogEntry("INFO", None, Strip(Tail(line)))

\* Index of the first terminator of data, 0 when it has none
FirstNL(data) ==
    IF \E k \in 1..Len(data) : data[k] = NL
    THEN CHOOSE k \in 1..Len(data) :
            data[k] = NL /\ \A j \in 1..(k - 1) : data[j] # NL
    ELSE 0

\* f.readlines() on the data from byte offset off to the end of the file: each
\* line with its terminator, and what follows the last terminator as a last line.
\* A line is kept with the offset it starts at.
RECURSIVE ReadLines(_, _)
ReadLines(data, off) ==
    IF data = <<>> THEN <<>>
    ELSE LET k == FirstNL(data)
         IN  IF k = 0
             THEN << [off |-> off, raw |-> data] >>
             ELSE << [off |-> off, raw |-> SubSeq(data, 1, k)] >>
                    \o ReadLines(SubSeq(data, k + 1, Len(data)), off + k)

-----------------------------------------------------------------------------
(* The reasoning service and the analyzer *)

\* What chat.completions.create does: raise, answer with no content
\* (message.content is None), or answer with a text
ServiceError == <<"<ServiceError>">>
NoContent == <<"<NoContent>">>

LowerLetters ==
    <<"a", "b", "c", "d", "e", "f", "g", "h", "i", "j", "k", "l", "m",
      "n", "o", "p", "q", "r", "s", "t", "u", "v", "w", "x", "y", "z">>

UpperLetters ==
    <<"A", "B", "C", "D", "E", "F", "G", "H", "I", "J", "K", "L", "M",
      "N", "O", "P", "Q", "R", "S", "T", "U", "V", "W", "X", "Y", "Z">>

Digits == {"0", "1", "2", "3", "4", "5", "6", "7", "8", "9"}

\* \w
WordChars ==
    {LowerLetters[i] : i \in 1..26} \cup {UpperLetters[i] : i \in 1..26}
        \cup Digits \cup {"_"}

ToUpper(c) ==
    IF \E i \in 1..26 : LowerLetters[i] = c
    THEN UpperLetters[CHOOSE i \in 1..26 : LowerLetters[i] = c]
    ELSE c

ToLower(c) ==
    IF \E i \in 1..26 : UpperLetters[i] = c
    THEN LowerLetters[CHOOSE i \in 1..26 : UpperLetters[i] = c]
    ELSE c

\* str.upper()
upper(s) == [i \in 1..Len(s) |-> ToUpper(s[i])]

SetMin(S) == CHOOSE x \in S : \A y \in S : x <= y

SetMax(S) == CHOOSE x \in S : \A y \in S : x >= y

LOW == <<"L", "O", "W">>
MEDIUM == <<"M", "E", "D", "I", "U", "M">>
HIGH == <<"H", "I", "G", "H">>
CRITICAL == <<"C", "R", "I", "T", "I", "C", "A", "L">>

\* ['LOW', 'MEDIUM', 'HIGH', 'CRITICAL']
SeverityNames == {LOW, MEDIUM, HIGH, CRITICAL}

\* "Unknown issue"
UnknownIssue ==
    <<"U", "n", "k", "n", "o", "w", "n", " ", "i", "s", "s", "u", "e">>

\* The literal text of the severity pattern, r'\*\*Severity:\*\*'
SeverityLabel ==
    <<"*", "*", "S", "e", "v", "e", "r", "i", "t", "y", ":", "*", "*">>

\* The positions '^' matches at under re.MULTILINE, short of the end of content
LineStarts(content) ==
    {p \in 1..Len(content) : p = 1 \/ content[p - 1] = NL}

\* Where the line holding position g ends: '.' matches no line break, '$' matches
\* before one and at the end of content
LineEnd(content, g) ==
    IF \E k \in g..Len(content) : content[k] = NL
    THEN SetMin({k \in g..Len(content) : content[k] = NL}) - 1
    ELSE Len(content)

\* The ways r'^#\s+(.+)$' (n = 1) or r'^##\s+(.+)$' (n = 2) matches at p: n hashes,
\* then j >= 1 whitespace characters, line breaks among them, then a character
\* that is no line break
HeadingSplits(content, n, p) ==
    {j \in 1..Len(content) :
        /\ p + n + j <= Len(content)
        /\ \A k \in 0..(n - 1) : content[p + k] = "#"
        /\ \A k \in 0..(j - 1) : content[p + n + k] \in Whitespace
        /\ content[p + n + j] # NL}

\* re.search(r'^#...\s+(.+)$', content, re.MULTILINE): group(1) of the leftmost
\* match, \s+ taking all it can; None when nothing matches
search_heading(content, n) ==
    LET starts == {p \in LineStarts(content) : HeadingSplits(content, n, p) # {}}
    IN  IF starts = {} THEN None
        ELSE LET p == SetMin(starts)
                 g == p + n + SetMax(HeadingSplits(content, n, p))
             IN  SubSeq(content, g, LineEnd(content, g))

\* LabelAt matching the letters of the label as written, without re.IGNORECASE
LabelAtExact(content, p) ==
    /\ p + Len(SeverityLabel) - 1 <= Len(content)
    /\ \A k \in 1..Len(SeverityLabel) : content[p + k - 1] = SeverityLabel[k]

\* r'\*\*Severity:\*\*' matches at p under re.IGNORECASE
LabelAt(content, p) ==
    /\ p + Len(SeverityLabel) - 1 <= Len(content)
    /\ \A k \in 1..Len(SeverityLabel) :
          ToLower(content[p + k - 1]) = ToLower(SeverityLabel[k])

\* \s*: the first position from q on that holds no whitespace
SkipWhitespace(content, q) ==
    SetMin({k \in q..(Len(content) + 1) :
                k = Len(content) + 1 \/ content[k] \notin Whitespace})

\* (\w+): the last position of the run of word characters that begins at q
WordEnd(content, q) ==
    SetMax({e \in q..Len(content) : \A i \in q..e : content[i] \in WordChars})

\* r'\*\*Severity:\*\*\s*(\w+)' matches at p
SeverityAt(content, p) ==
    /\ LabelAt(content, p)
    /\ LET q == SkipWhitespace(content, p + Len(SeverityLabel))
       IN  q <= Len(content) /\ content[q] \in WordChars

\* re.search(r'\*\*Severity:\*\*\s*(\w+)', content, re.IGNORECASE): group(1) of the
\* leftmost match, None when nothing matches
search_severity(content) ==
    LET places == {p \in 1..Len(content) : SeverityAt(content, p)}
    IN  IF places = {} THEN None
        ELSE LET q == SkipWhitespace(content, SetMin(places) + Len(SeverityLabel))
             IN  SubSeq(content, q, WordEnd(content, q))

\* parse_markdown_response with the title written after the subtitle: a level-1
\* heading wins over a level-2 heading
parse_markdown_response_title_wins(markdown_content) ==
    LET title == search_heading(markdown_content, 1)
        subtitle == search_heading(markdown_content, 2)
        severity_match == search_severity(markdown_content)
    IN  [ issue_summary |->
              IF title # None THEN Strip(title)
              ELSE IF subtitle # None THEN Strip(subtitle)
              ELSE UnknownIssue,
          severity |->
              IF severity_match # None /\ upper(severity_match) \in SeverityNames
              THEN upper(severity_match)
              ELSE MEDIUM ]

\* AIAnalyzer._parse_markdown_response, for a str: the defaults, the title, the
\* subtitle written over it, and the severity if it is one of the four names
parse_markdown_response(markdown_content) ==
    LET title == search_heading(markdown_content, 1)
        subtitle == search_heading(markdown_content, 2)
        severity_match == search_severity(markdown_content)
    IN  [ issue_summary |->
              IF subtitle # None THEN Strip(subtitle)
              ELSE IF title # None THEN Strip(title)
              ELSE UnknownIssue,
          severity |->
              IF severity_match # None /\ upper(severity_match) \in SeverityNames
              THEN upper(severity_match)
              ELSE MEDIUM ]

\* AIAnalyzer._extract_severity_from_markdown, for a str
extract_severity_from_markdown(content) ==
    LET severity_match == search_severity(content)
    IN  IF severity_match # None /\ upper(severity_match) \in SeverityNames
        THEN upper(severity_match)
        ELSE MEDIUM

\* AIAnalyzer._extract_title_from_markdown, for a str: the subtitle, else the
\* title, else None
extract_title_from_markdown(content) ==
    LET subtitle_match == search_heading(content, 2)
        title_match == search_heading(content, 1)
    IN  IF subtitle_match # None THEN Strip(subtitle_match)
        ELSE IF title_match # None THEN Strip(title_match)
        ELSE None

\* f"{representative_entry.level.value} in {representative_entry.component}",
\* the summary of the handler at line 162 when no title is extracted
LevelInComponent(representative_entry) ==
    <<representative_entry.level, " ", "i", "n", " ">>
        \o Str(representative_entry.component)

\* A text the reasoning service answers with in the pipeline: "# T"
ResponseTexts == { <<"#", " ", "T">> }

Responses == {ServiceError, NoContent} \cup ResponseTexts

\* The Recommendation of lines 153-160, its id and created_at left out
Recommendation(log_entries, result) ==
    LET parsed_data == parse_markdown_response(result)
    IN  [ log_entry_hash |-> generate_group_hash(log_entries),
          issue_summary |-> parsed_data.issue_summary,
          recommendation |-> result,
          severity |-> parsed_data.severity,
          resolved |-> FALSE ]

\* AIAnalyzer._analyze_single_group, given what the service does.  A raise is
\* caught at line 180.  With no content, _parse_markdown_response raises on
\* re.search(None) at line 245, the handler at line 162 raises again in
\* _extract_severity_from_markdown at line 168, and line 180 catches that.  Both
\* return None, here the empty list.  A text never raises in
\* _parse_markdown_response, so the handler at line 162, and with it the summary
\* of line 173, is reached for no response that yields a Recommendation.
analyze_single_group(log_entries, response) ==
    IF response = ServiceError \/ response = NoContent
    THEN <<>>
    ELSE <<Recommendation(log_entries, response)>>

-----------------------------------------------------------------------------
(* The tailer and the per-entry pipeline *)

MaxWrites == 3

MaxTruncations == 1

\* The entry of the line a coroutine is at
EntryOf(line) == parse_log_line(Strip(line.raw))

\* _process_log_entry returns at line 104 before it awaits anything
CallbackReturnsAtOnce(entry) ==
    ~capture_all_logs /\ entry.level \notin ai_analysis_levels

\* The loop of _process_new_lines from the head of lines up to the first await that
\* suspends: blank and unparsable lines are passed over, the callback is called on
\* each entry, and the loop stops inside the first call that awaits the database.
\* rest: the lines left, the first being the one whose callback is suspended;
\* called: the lines the callback was called on.
RECURSIVE RunLoop(_)
RunLoop(lines) ==
    IF lines = <<>> THEN [rest |-> <<>>, called |-> <<>>]
    ELSE LET line == Strip(Head(lines).raw)
         IN  IF line = <<>> \/ ~Parses(line)
             THEN RunLoop(Tail(lines))
             ELSE IF CallbackReturnsAtOnce(parse_log_line(line))
                  THEN LET r == RunLoop(Tail(lines))
                       IN  [rest |-> r.rest, called |-> <<Head(lines)>> \o r.called]
                  ELSE [rest |-> lines, called |-> <<Head(lines)>>]

\* Coroutine t goes on with lines: it runs the loop to its next suspension, or ends
Resume(t, lines) ==
    LET run == RunLoop(lines)
    IN  /\ delivered' = delivered \o run.called
        /\ tasks' = [tasks EXCEPT ![t] =
                        IF run.rest = <<>> THEN IdleTask
                        ELSE [pc |-> "check", new_lines |-> run.rest, recs |-> <<>>]]

\* The slot a newly scheduled coroutine takes
FreeSlot(t) ==
    /\ tasks[t].pc = "idle"
    /\ \A u \in TaskIds : u < t => tasks[u].pc # "idle"

TailInit ==
    /\ TailIdle
    /\ FpIdle /\ GrpIdle /\ AnIdle /\ MdIdle /\ MoreIdle

\* Start with last_position left at 0
StartAtZero ==
    /\ ~observing
    /\ exists
    /\ last_position' = 0
    /\ start_offset' = Len(file)
    /\ observing' = TRUE
    /\ start_result' = "watching"
    /\ UNCHANGED <<file, tasks, processed, recommendations, delivered, ai_calls,
                   read_from, truncations, writes, exists, stops, faults, last_fault,
                   raised, fpVars, grpVars, anVars, mdVars, moreVars>>

\* LogMonitor.start when the file exists: last_position is the size of the file,
\* and the observer is created and started
Start ==
    /\ ~observing
    /\ exists
    /\ last_position' = Len(file)
    /\ start_offset' = Len(file)
    /\ observing' = TRUE
    /\ start_result' = "watching"
    /\ UNCHANGED <<file, tasks, processed, recommendations, delivered, ai_calls,
                   read_from, truncations, writes, exists, stops, faults, last_fault,
                   raised, fpVars, grpVars, anVars, mdVars, moreVars>>

\* What one write of the log's writer appends: a whole full-format line, the head
\* of a simple-format line (its terminator not yet written), or the rest of a
\* line with its terminator
Chunks == { <<"E", "m", NL>>, <<"I", "m">>, <<"m", NL>> }

\* The writer of the log appends to the file
Write ==
    /\ exists
    /\ writes < MaxWrites
    /\ \E chunk \in Chunks : file' = file \o chunk
    /\ writes' = writes + 1
    /\ UNCHANGED <<last_position, observing, tasks, processed, recommendations,
                   delivered, ai_calls, start_offset, read_from, truncations,
                   lcVars, fpVars, grpVars, anVars, mdVars, moreVars>>

\* The log is rotated or truncated: an empty file is in its place
Truncate ==
    /\ exists
    /\ truncations < MaxTruncations
    /\ file # <<>>
    /\ file' = <<>>
    /\ truncations' = truncations + 1
    /\ UNCHANGED <<last_position, observing, tasks, processed, recommendations,
                   delivered, ai_calls, start_offset, read_from, writes,
                   lcVars, fpVars, grpVars, anVars, mdVars, moreVars>>

\* What the log's writer does between the stat and the read of one notification
WriterMoves ==
    {[kind |-> "none", chunk |-> <<>>]}
        \cup {[kind |-> "write", chunk |-> c] : c \in Chunks}
        \cup {[kind |-> "truncate", chunk |-> <<>>]}

MoveEnabled(move) ==
    CASE move.kind = "none" -> TRUE
      [] move.kind = "write" -> writes < MaxWrites
      [] move.kind = "truncate" -> truncations < MaxTruncations /\ file # <<>>

FileAfter(move) ==
    CASE move.kind = "none" -> file
      [] move.kind = "write" -> file \o move.chunk
      [] move.kind = "truncate" -> <<>>

\* SeekPosition without the truncation test of line 91
SeekPositionNoReset(current_size) == last_position

\* The position the read starts at: 0 when the file is shorter than last_position
SeekPosition(current_size) ==
    IF current_size < last_position THEN 0 ELSE last_position

\* f.tell() after readlines(): the end of the file, or the position sought when
\* that lies beyond the end
Tell(position, content) ==
    IF position > Len(content) THEN position ELSE Len(content)

\* The test of line 94 never holding: the file is opened and read in any case
NoNewDataNever(current_size, position) == FALSE

\* if current_size == self.last_position: return
NoNewData(current_size, position) == current_size = position

\* LogFileHandler.on_modified schedules _process_new_lines, which runs up to its
\* first suspension: stat, the truncation test, the read, and the loop up to the
\* first callback that awaits.  The writer may act between the stat and the read.
ProcessNewLines ==
    /\ observing
    /\ \E t \in TaskIds, move \in WriterMoves :
        /\ FreeSlot(t)
        /\ LET current_size == Len(file)
               position == SeekPosition(current_size)
           IN  IF NoNewData(current_size, position)
               THEN /\ move.kind = "none"
                    /\ last_position' = position
                    /\ read_from' = -1
                    /\ UNCHANGED <<file, writes, truncations, tasks, delivered>>
               ELSE /\ MoveEnabled(move)
                    /\ file' = FileAfter(move)
                    /\ writes' = IF move.kind = "write" THEN writes + 1 ELSE writes
                    /\ truncations' =
                          IF move.kind = "truncate" THEN truncations + 1 ELSE truncations
                    /\ read_from' = position
                    /\ last_position' = Tell(position, file')
                    /\ Resume(t, ReadLines(SubSeq(file', position + 1, Len(file')), position))
    /\ UNCHANGED <<observing, processed, recommendations, ai_calls,
                   start_offset, lcVars, fpVars, grpVars, anVars, mdVars, moreVars>>

\* is_log_processed finding no row whatever the table holds
is_log_processed_never(log_hash) == FALSE

\* Database.is_log_processed: SELECT 1 FROM processed_logs WHERE hash = ?
is_log_processed(log_hash) == log_hash \in processed

\* Database.is_log_processed answers the callback of coroutine t
CheckProcessed(t) ==
    /\ tasks[t].pc = "check"
    /\ LET log_hash == generate_log_hash(EntryOf(Head(tasks[t].new_lines)))
       IN  IF is_log_processed(log_hash)
           THEN Resume(t, Tail(tasks[t].new_lines))
           ELSE /\ tasks' = [tasks EXCEPT ![t].pc = "mark"]
                /\ UNCHANGED delivered
    /\ UNCHANGED <<file, last_position, observing, processed, recommendations,
                   ai_calls, start_offset, read_from, truncations, writes, lcVars, fpVars, grpVars, anVars, mdVars, moreVars>>

\* Database.mark_log_processed: INSERT OR REPLACE
MarkProcessed(t) ==
    /\ tasks[t].pc = "mark"
    /\ LET entry == EntryOf(Head(tasks[t].new_lines))
       IN  /\ processed' = processed \cup {generate_log_hash(entry)}
           /\ IF entry.level \in ai_analysis_levels
              THEN /\ tasks' = [tasks EXCEPT ![t].pc = "analyze"]
                   /\ UNCHANGED delivered
              ELSE Resume(t, Tail(tasks[t].new_lines))
    /\ UNCHANGED <<file, last_position, observing, recommendations,
                   ai_calls, start_offset, read_from, truncations, writes, lcVars, fpVars, grpVars, anVars, mdVars, moreVars>>

\* analyze_log_entries([log_entry]): one group, one call of the service
Analyze(t) ==
    /\ tasks[t].pc = "analyze"
    /\ ai_calls' = ai_calls + 1
    /\ \E response \in Responses :
        LET entry == EntryOf(Head(tasks[t].new_lines))
            result == analyze_single_group(<<entry>>, response)
        IN  IF result = <<>>
            THEN Resume(t, Tail(tasks[t].new_lines))
            ELSE /\ tasks' = [tasks EXCEPT ![t].pc = "store", ![t].recs = result]
                 /\ UNCHANGED delivered
    /\ UNCHANGED <<file, last_position, observing, processed, recommendations,
                   start_offset, read_from, truncations, writes, lcVars, fpVars, grpVars, anVars, mdVars, moreVars>>

\* Database.store_recommendation, for the one recommendation of the list
StoreRecommendation(t) ==
    /\ tasks[t].pc = "store"
    /\ recommendations' = Append(recommendations, Head(tasks[t].recs))
    /\ Resume(t, Tail(tasks[t].new_lines))
    /\ UNCHANGED <<file, last_position, observing, processed,
                   ai_calls, start_offset, read_from, truncations, writes, lcVars, fpVars, grpVars, anVars, mdVars, moreVars>>

Next ==
    \/ Start
    \/ Write
    \/ Truncate
    \/ ProcessNewLines
    \/ \E t \in TaskIds : CheckProcessed(t)
    \/ \E t \in TaskIds : MarkProcessed(t)
    \/ \E t \in TaskIds : Analyze(t)
    \/ \E t \in TaskIds : StoreRecommendation(t)

Spec == TailInit /\ [][Next]_vars

InFlight == {t \in TaskIds : tasks[t].pc # "idle"}

\* Nothing is running and nothing is left to read
Quiescent == InFlight = {} /\ last_position = Len(file)

Terminated(line) == line.raw[Len(line.raw)] = NL

\* The lines written since start() that are complete, not blank and parsable, in
\* file order (start_offset is taken as a line start)
CompleteLines ==
    SelectSeq(ReadLines(SubSeq(file, start_offset + 1, Len(file)), start_offset),
              LAMBDA line : /\ Terminated(line)
                            /\ Strip(line.raw) # <<>>
                            /\ Parses(Strip(line.raw)))

\* C1: the tailer never hands the callback a line whose terminator is not written
\* yet, and does not advance last_position past unterminated bytes.
C1_NoPartialLineDelivered ==
    truncations = 0 =>
        /\ \A i \in 1..Len(delivered) : Terminated(delivered[i])
        /\ (observing /\ last_position > start_offset) => file[last_position] = NL

\* C2: while the file only grows, the callback gets the complete parsable lines
\* written since start() in file order, each once, none skipped.
C2_InOrderExactlyOnce ==
    (observing /\ truncations = 0) =>
        /\ \A i, j \in 1..Len(delivered) :
              i < j => delivered[i].off < delivered[j].off
        /\ Quiescent =>
              \A k \in 1..Len(CompleteLines) :
                  Cardinality({i \in 1..Len(delivered) : delivered[i] = CompleteLines[k]}) = 1

\* C3: at most one _process_new_lines is in progress at any time.
C3_AtMostOneInFlight ==
    Cardinality(InFlight) <= 1

\* C4: a notification that finds the file shorter than last_position resets
\* last_position to 0; if the file is empty nothing is read or delivered, else the
\* read starts at offset 0.
C4_TruncationResets ==
    [][ (ProcessNewLines /\ Len(file) < last_position) =>
            IF Len(file) = 0
            THEN /\ last_position' = 0
                 /\ read_from' = -1
                 /\ delivered' = delivered
                 /\ tasks' = tasks
            ELSE /\ read_from' = 0
                 /\ last_position' = Len(file') ]_vars

\* After a truncation, a read that began at offset 0 although start() had set a
\* later position, and an entry of the new content delivered from offset 0.
C4_Witness ==
    /\ truncations = 1
    /\ start_offset > 0
    /\ read_from = 0
    /\ last_position = Len(file)
    /\ delivered # <<>>
    /\ delivered[Len(delivered)].off = 0

\* C6: an entry whose fingerprint is in the processed set leaves the pipeline at
\* the check: its callback is over, and the processed set, the recommendations and
\* the number of service calls are as before.
C6_DuplicateExitsAtCheck ==
    [][ \A t \in TaskIds :
          ( /\ CheckProcessed(t)
            /\ generate_log_hash(EntryOf(Head(tasks[t].new_lines))) \in processed )
          => /\ processed' = processed
             /\ recommendations' = recommendations
             /\ ai_calls' = ai_calls
             /\ tasks'[t].pc \in {"idle", "check"}
             /\ Len(tasks'[t].new_lines) < Len(tasks[t].new_lines) ]_vars

\* Two entries of one fingerprint were delivered and all is done, with one service
\* call and one processed fingerprint: the second entry left at the check.
C6_Witness ==
    /\ InFlight = {}
    /\ Len(delivered) = 2
    /\ EntryOf(delivered[1]).level = "ERROR"
    /\ generate_log_hash(EntryOf(delivered[1])) = generate_log_hash(EntryOf(delivered[2]))
    /\ Cardinality(processed) = 1
    /\ ai_calls = 1

\* C29: start() sets last_position to the size the file has then, and while the
\* file only grows every line handed to the callback begins at or after that
\* offset: what stood in the file at start() is never delivered.
C29_StartSkipsExistingContent ==
    /\ [][Start => last_position' = Len(file)]_vars
    /\ [](truncations = 0 =>
             \A i \in 1..Len(delivered) : delivered[i].off >= start_offset)

\* A line stood in the file at start(), lines were appended, and all that the
\* notifications read has been delivered
C29_Witness ==
    /\ truncations = 0
    /\ start_offset > 0
    /\ file[start_offset] = NL
    /\ observing
    /\ Quiescent
    /\ delivered # <<>>

\* C30: a notification that finds the file as long as last_position says hands
\* no line to the callback, does not read the file, starts no work and leaves
\* last_position as it is.
C30_NoNewDataNoEffect ==
    [][ (ProcessNewLines /\ Len(file) = last_position) =>
            /\ delivered' = delivered
            /\ read_from' = -1
            /\ tasks' = tasks
            /\ last_position' = last_position
            /\ file' = file ]_vars

\* Lines were read and delivered, and the last notification found nothing new
C30_Witness ==
    /\ truncations = 0
    /\ delivered # <<>>
    /\ Len(file) > start_offset
    /\ last_position = Len(file)
    /\ read_from = -1

\* The fingerprint of the entry the callback of coroutine t is handling
HashAt(t) == generate_log_hash(EntryOf(Head(tasks[t].new_lines)))

\* The coroutines whose entry has passed the is_log_processed test of line 110
PastCheck == {t \in TaskIds : tasks[t].pc \in {"mark", "analyze", "store"}}

\* C31: two entries of one fingerprint never both pass the is_log_processed test:
\* no two callbacks are past the test with one fingerprint, no callback is about
\* to mark a fingerprint that is marked already, and the reasoning service is
\* called once at most for each fingerprint of the processed set.
C31_CheckPassedOncePerFingerprint ==
    /\ \A t, u \in PastCheck : t # u => HashAt(t) # HashAt(u)
    /\ \A t \in PastCheck : tasks[t].pc = "mark" => HashAt(t) \notin processed
    /\ ai_calls <= Cardinality(processed)

\* The reasoning call of coroutine t fails: no recommendation comes back
AnalysisFails(t) == Analyze(t) /\ tasks'[t].pc # "store"

\* C32: the fingerprint is marked before the reasoning service is called; when the
\* call fails nothing is stored for the entry and the fingerprint stays marked;
\* and no entry of that fingerprint gets a reasoning call afterwards: an entry
\* that comes to the test is skipped there, and no entry of that fingerprint is
\* past the test, on its way to the service, when the call fails.
C32_FailedAnalysisNotRetried ==
    [][ \A t \in TaskIds :
          /\ Analyze(t) => HashAt(t) \in processed
          /\ AnalysisFails(t) =>
                /\ recommendations' = recommendations
                /\ tasks'[t].recs = <<>>
                /\ HashAt(t) \in processed'
                /\ \A u \in PastCheck \ {t} :
                      tasks[u].pc \in {"mark", "analyze"} => HashAt(u) # HashAt(t)
          /\ (CheckProcessed(t) /\ HashAt(t) \in processed) =>
                /\ ai_calls' = ai_calls
                /\ tasks'[t].pc \in {"idle", "check"}
          /\ processed \subseteq processed' ]_vars

-----------------------------------------------------------------------------
(* Fingerprinting a pair of entries *)

FpLevels == {"ERROR", "WARNING"}

FpComponents == {None, NoneStr, <<"c">>, <<"c", ":", "d">>}

FpMessages ==
    { <<"x">>, <<"d", ":", "x">>,
      Rep("m", HashWindow), Rep("m", HashWindow - 1) \o <<"x">>,
      Rep("m", HashWindow) \o <<"x">>, Rep("m", HashWindow) \o <<"y">> }

FpEntries ==
    {LogEntry(l, c, m) : l \in FpLevels, c \in FpComponents, m \in FpMessages}

FpInit ==
    /\ fp_in \in FpEntries \X FpEntries
    /\ fp_out = <<>>
    /\ fp_done = FALSE
    /\ TailIdle /\ GrpIdle /\ AnIdle /\ MdIdle /\ MoreIdle

\* main.py line 107, for each entry of the pair
Fingerprint ==
    /\ ~fp_done
    /\ fp_out' = <<generate_log_hash(fp_in[1]), generate_log_hash(fp_in[2])>>
    /\ fp_done' = TRUE
    /\ UNCHANGED <<fp_in, tailVars, grpVars, anVars, mdVars, moreVars>>

FpNext == Fingerprint

SpecFingerprint == FpInit /\ [][FpNext]_vars

\* C7: two entries that agree on level, component and the first 200 characters of
\* their messages have the same fingerprint (and so the second is a duplicate).
C7_FingerprintReadsFirst200Only ==
    ( /\ fp_done
      /\ fp_in[1].level = fp_in[2].level
      /\ fp_in[1].component = fp_in[2].component
      /\ Take(fp_in[1].message, HashWindow) = Take(fp_in[2].message, HashWindow) )
    => fp_out[1] = fp_out[2]

\* C8: two entries that differ in level or in component (an absent component
\* differing from every present one) have different fingerprints, whatever their
\* messages.
C8_FingerprintSeparatesLevelAndComponent ==
    ( /\ fp_done
      /\ \/ fp_in[1].level # fp_in[2].level
         \/ fp_in[1].component # fp_in[2].component )
    => fp_out[1] # fp_out[2]

\* C28: the grouping key is coarser than the fingerprint: two entries with the
\* same fingerprint, as main.py computes it, have the same grouping key.
C28_FingerprintRefinesGroupingKey ==
    (fp_done /\ fp_out[1] = fp_out[2]) => GroupKey(fp_in[1]) = GroupKey(fp_in[2])

\* C33: the log_entry_hash of the recommendation that the pipeline's call
\* analyze_log_entries([log_entry]) produces is the fingerprint under which the
\* entry was marked processed, whatever the length of its message.
C33_RecommendationHashIsFingerprint ==
    fp_done =>
        \A i \in 1..2, result \in ResponseTexts :
            Recommendation(<<fp_in[i]>>, result).log_entry_hash = fp_out[i]

-----------------------------------------------------------------------------
(* Grouping a batch *)

MaxBatch == 3

GrpLevels == {"ERROR", "WARNING"}

GrpComponents == {None, NoneStr, <<"c">>}

GrpMessages ==
    { <<"x">>, Rep("m", GroupWindow) \o <<"x">>, Rep("m", GroupWindow) \o <<"y">> }

GrpEntries ==
    {LogEntry(l, c, m) : l \in GrpLevels, c \in GrpComponents, m \in GrpMessages}

\* Five entries alike within the window and one of another component
BurstBatch ==
    << LogEntry("ERROR", <<"c">>, Rep("m", GroupWindow) \o <<"x">>),
       LogEntry("ERROR", <<"c">>, Rep("m", GroupWindow) \o <<"y">>),
       LogEntry("ERROR", <<"c">>, Rep("m", GroupWindow) \o <<"x">>),
       LogEntry("ERROR", None, Rep("m", GroupWindow) \o <<"x">>),
       LogEntry("ERROR", <<"c">>, Rep("m", GroupWindow) \o <<"y">>),
       LogEntry("ERROR", <<"c">>, Rep("m", GroupWindow) \o <<"x">>) >>

GrpBatches ==
    UNION {[1..n -> GrpEntries] : n \in 0..MaxBatch} \cup {BurstBatch}

GrpInit ==
    /\ grp_in \in GrpBatches
    /\ grp_out = <<>>
    /\ grp_done = FALSE
    /\ TailIdle /\ FpIdle /\ AnIdle /\ MdIdle /\ MoreIdle

\* ai_analyzer.py line 79
Group ==
    /\ ~grp_done
    /\ grp_out' = group_similar_entries(grp_in)
    /\ grp_done' = TRUE
    /\ UNCHANGED <<grp_in, tailVars, fpVars, anVars, mdVars, moreVars>>

GrpNext == Group

SpecGroup == GrpInit /\ [][GrpNext]_vars

RECURSIVE SumLen(_, _)
SumLen(groups, n) ==
    IF n = 0 THEN 0 ELSE SumLen(groups, n - 1) + Len(groups[n])

\* The places <<j, k>> of grp_out that hold batch position i
PlacesOf(i) ==
    {p \in (1..Len(grp_out)) \X (1..Len(grp_in)) :
        p[2] <= Len(grp_out[p[1]]) /\ grp_out[p[1]][p[2]] = i}

\* C9: group() partitions its input: every entry is in exactly one group, once;
\* no group is empty; the group sizes add up to the number of entries.
C9_GroupPartitions ==
    grp_done =>
        /\ \A i \in 1..Len(grp_in) : Cardinality(PlacesOf(i)) = 1
        /\ \A j \in 1..Len(grp_out) :
              /\ Len(grp_out[j]) > 0
              /\ \A k \in 1..Len(grp_out[j]) : grp_out[j][k] \in 1..Len(grp_in)
        /\ SumLen(grp_out, Len(grp_out)) = Len(grp_in)

\* The burst of five entries alike and one of another component has been grouped
\* into a group of five and a group of one.
C9_Witness ==
    /\ grp_done
    /\ grp_in = BurstBatch
    /\ Len(grp_out) = 2
    /\ Len(grp_out[1]) = 5
    /\ Len(grp_out[2]) = 1

\* The group of grp_out holding batch position i
GroupOf(i) == CHOOSE j \in 1..Len(grp_out) : \E k \in 1..Len(grp_out[j]) : grp_out[j][k] = i

\* C10: two entries of one batch share a group iff they have the same level, the
\* same component (absent equal only to absent) and the same first 100 characters
\* of message.
C10_SameGroupIffSameKeyFields ==
    grp_done =>
        \A i, j \in 1..Len(grp_in) :
            (GroupOf(i) = GroupOf(j)) <=>
                ( /\ grp_in[i].level = grp_in[j].level
                  /\ grp_in[i].component = grp_in[j].component
                  /\ Take(grp_in[i].message, GroupWindow)
                        = Take(grp_in[j].message, GroupWindow) )

\* The key the clusterer partitions by: level, component and message[:100]
KeyFields(entry) == <<entry.level, entry.component, Take(entry.message, GroupWindow)>>

\* C27: the groups come in the order in which their first entries occur in the
\* batch, the entries of a group are in batch order, and the first entry of a
\* group is the earliest entry of the batch with its level, component and
\* message[:100].
C27_GroupingKeepsOrder ==
    grp_done =>
        /\ \A j \in 1..Len(grp_out) :
              \A k \in 1..(Len(grp_out[j]) - 1) : grp_out[j][k] < grp_out[j][k + 1]
        /\ \A j \in 1..(Len(grp_out) - 1) : grp_out[j][1] < grp_out[j + 1][1]
        /\ \A j \in 1..Len(grp_out) :
              \A i \in 1..(grp_out[j][1] - 1) :
                  KeyFields(grp_in[i]) # KeyFields(grp_in[grp_out[j][1]])

\* A batch whose first and third entries are alike and whose second is not
C27_Witness ==
    /\ grp_done
    /\ Len(grp_out) = 2
    /\ grp_out[1] = <<1, 3>>
    /\ grp_out[2] = <<2>>

-----------------------------------------------------------------------------
(* analyze_log_entries on a batch *)

AnEntries ==
    { LogEntry("ERROR", <<"c">>, <<"x">>),
      LogEntry("ERROR", <<"c">>, <<"y">>),
      LogEntry("WARNING", <<"c">>, <<"x">>),
      LogEntry("ERROR", None, <<"x">>) }

AnBatches == UNION {[1..n -> AnEntries] : n \in 0..MaxBatch}

AnInit ==
    /\ an_in \in AnBatches
    /\ an_groups = <<>>
    /\ an_idx = 0
    /\ an_recs = <<>>
    /\ an_resps = <<>>
    /\ an_raised = FALSE
    /\ an_pc = "idle"
    /\ TailIdle /\ FpIdle /\ GrpIdle /\ MdIdle /\ MoreIdle

\* analyze_log_entries up to its loop: an empty batch returns [] at once
AnalyzeStart ==
    /\ an_pc = "idle"
    /\ IF an_in = <<>>
       THEN /\ an_pc' = "done"
            /\ UNCHANGED <<an_groups, an_idx>>
       ELSE /\ an_groups' =
                  LET groups == group_similar_entries(an_in)
                  IN  [j \in 1..Len(groups) |-> GroupEntries(an_in, groups[j])]
            /\ an_idx' = 1
            /\ an_pc' = "loop"
    /\ UNCHANGED <<an_in, an_recs, an_resps, an_raised, tailVars, fpVars, grpVars, mdVars, moreVars>>

\* AnalyzeGroup without the handlers at lines 86 and 180: a failed call ends the
\* loop and leaves analyze_log_entries as an exception
AnalyzeGroupAborting ==
    /\ an_pc = "loop"
    /\ \E response \in Responses :
        /\ an_resps' = Append(an_resps, response)
        /\ an_recs' = an_recs \o analyze_single_group(an_groups[an_idx], response)
        /\ an_raised' = (response \notin ResponseTexts)
        /\ an_pc' = IF an_idx = Len(an_groups) \/ response \notin ResponseTexts
                    THEN "done" ELSE "loop"
    /\ an_idx' = an_idx + 1
    /\ UNCHANGED <<an_in, an_groups, tailVars, fpVars, grpVars, mdVars, moreVars>>

\* One turn of the loop: the group is analysed, a recommendation is appended if
\* there is one, and the loop goes on to the next group whatever happened
AnalyzeGroup ==
    /\ an_pc = "loop"
    /\ \E response \in Responses :
        /\ an_resps' = Append(an_resps, response)
        /\ an_recs' = an_recs \o analyze_single_group(an_groups[an_idx], response)
    /\ an_idx' = an_idx + 1
    /\ an_pc' = IF an_idx = Len(an_groups) THEN "done" ELSE "loop"
    /\ UNCHANGED <<an_in, an_groups, an_raised, tailVars, fpVars, grpVars, mdVars, moreVars>>

AnNext ==
    \/ AnalyzeStart
    \/ AnalyzeGroup

SpecAnalyze == AnInit /\ [][AnNext]_vars

\* The groups the reasoning service answered with a text
Answered == {j \in 1..Len(an_resps) : an_resps[j] \in ResponseTexts}

\* C5: when the call for one group fails, that group yields no recommendation,
\* every other group of the batch is still analysed and its recommendation
\* returned, and no failure reaches the caller.
C5_PartialFailureIsolation ==
    an_pc = "done" =>
        /\ ~an_raised
        /\ Len(an_resps) = Len(an_groups)
        /\ Len(an_recs) = Cardinality(Answered)
        /\ \A j \in Answered :
              \E k \in 1..Len(an_recs) :
                  /\ an_recs[k].log_entry_hash = generate_group_hash(an_groups[j])
                  /\ an_recs[k].recommendation = an_resps[j]
        /\ \A k \in 1..Len(an_recs) :
              \E j \in Answered :
                  an_recs[k].log_entry_hash = generate_group_hash(an_groups[j])

\* A batch of three groups is done: the first call failed, the second was answered,
\* the third gave no content.
C5_Witness ==
    /\ an_pc = "done"
    /\ Len(an_groups) = 3
    /\ an_resps[1] = ServiceError
    /\ an_resps[2] \in ResponseTexts
    /\ an_resps[3] = NoContent
    /\ Len(an_recs) = 1

-----------------------------------------------------------------------------
(* A burst of lines read as one batch *)

\* A full-format ERROR line whose message is GroupWindow characters "m" and then c
BurstLine(c) == <<"E">> \o Rep("m", GroupWindow) \o <<c, NL>>

\* What the writer appends at once in a burst: two lines alike within the
\* grouping window, or one line twice
Bursts ==
    { BurstLine("x") \o BurstLine("y"),
      BurstLine("x") \o BurstLine("x") }

\* The writer appends a burst of whole lines in one write
WriteBurst ==
    /\ exists
    /\ writes < MaxWrites
    /\ \E burst \in Bursts : file' = file \o burst
    /\ writes' = writes + 1
    /\ UNCHANGED <<last_position, observing, tasks, processed, recommendations,
                   delivered, ai_calls, start_offset, read_from, truncations,
                   lcVars, fpVars, grpVars, anVars, mdVars, moreVars>>

BurstNext ==
    \/ Start
    \/ WriteBurst
    \/ ProcessNewLines
    \/ \E t \in TaskIds : CheckProcessed(t)
    \/ \E t \in TaskIds : MarkProcessed(t)
    \/ \E t \in TaskIds : Analyze(t)
    \/ \E t \in TaskIds : StoreRecommendation(t)

SpecBurst == TailInit /\ [][BurstNext]_vars

\* The grouping keys of the entries delivered that are of a level to analyse
DeliveredKeys ==
    { GroupKey(EntryOf(delivered[i])) :
        i \in {k \in 1..Len(delivered) :
                  EntryOf(delivered[k]).level \in ai_analysis_levels} }

\* C11: the entries of one batch that share a grouping key cause one call of the
\* reasoning service in total.  After a single write every entry delivered comes
\* from one read, so from one batch.
C11_OneCallPerGroupingKey ==
    (writes = 1 /\ truncations = 0) => ai_calls <= Cardinality(DeliveredKeys)

-----------------------------------------------------------------------------
(* _analyze_single_group on one response *)

MaxLines == 3

MdEntries ==
    { LogEntry("ERROR", <<"c">>, <<"x">>),
      LogEntry("WARNING", None, <<"x">>) }

\* Groups of one entry, and a group of two whose first entry is its representative
MdGroups ==
    { <<e>> : e \in MdEntries }
        \cup { << LogEntry("ERROR", <<"c">>, <<"x">>), LogEntry("ERROR", <<"c">>, <<"y">>) >> }

\* Lines of a response: a title, a subtitle, hashes with nothing after them,
\* severity labels in bold (as the system prompt asks for them) and plain, a
\* token that is no severity, a second subtitle, plain text, and the empty line
MdLines ==
    { <<"#", " ", "T">>,
      <<"#", "#", " ", "W">>,
      <<"#", "#">>,
      <<"*", "*", "S", "e", "v", "e", "r", "i", "t", "y", ":", "*", "*", " ", "h", "i", "g", "h">>,
      <<"*", "*", "S", "E", "V", "E", "R", "I", "T", "Y", ":", "*", "*", " ", "L", "o", "w">>,
      <<"*", "*", "S", "e", "v", "e", "r", "i", "t", "y", ":", "*", "*", " ", "u", "r", "g", "e", "n", "t">>,
      <<"S", "e", "v", "e", "r", "i", "t", "y", ":", " ", "h", "i", "g", "h">>,
      <<"#", "#", " ", "X">>,
      <<"x">>,
      <<>> }

\* "\n".join(lines)
RECURSIVE Join(_)
Join(lines) ==
    IF Len(lines) = 1 THEN Head(lines)
    ELSE Head(lines) \o <<NL>> \o Join(Tail(lines))

\* "# Title\n## Wifi dropout\n**Severity:** high\n"
ExampleText ==
    <<"#", " ", "T", "i", "t", "l", "e", NL, "#", "#", " ", "W", "i", "f",
      "i", " ", "d", "r", "o", "p", "o", "u", "t", NL, "*", "*", "S", "e",
      "v", "e", "r", "i", "t", "y", ":", "*", "*", " ", "h", "i", "g", "h",
      NL>>

\* {"issue_summary":"A","recommendation":"B","severity":"HIGH"}
StructuredText ==
    <<"{", "\"", "i", "s", "s", "u", "e", "_", "s", "u", "m", "m", "a",
      "r", "y", "\"", ":", "\"", "A", "\"", ",", "\"", "r", "e", "c", "o",
      "m", "m", "e", "n", "d", "a", "t", "i", "o", "n", "\"", ":", "\"",
      "B", "\"", ",", "\"", "s", "e", "v", "e", "r", "i", "t", "y", "\"",
      ":", "\"", "H", "I", "G", "H", "\"", "}">>

MdTexts ==
    { <<>>, ExampleText, StructuredText }
        \cup { Join(lines) : lines \in UNION {[1..n -> MdLines] : n \in 1..MaxLines} }

MdResponses == {ServiceError, NoContent} \cup MdTexts

MdInit ==
    /\ md_in \in MdGroups
    /\ md_resp \in MdResponses
    /\ md_out = <<>>
    /\ md_done = FALSE
    /\ TailIdle /\ FpIdle /\ GrpIdle /\ AnIdle /\ MoreIdle

\* ai_analyzer.py line 83
AnalyzeSingleGroup ==
    /\ ~md_done
    /\ md_out' = analyze_single_group(md_in, md_resp)
    /\ md_done' = TRUE
    /\ UNCHANGED <<md_in, md_resp, tailVars, fpVars, grpVars, anVars, moreVars>>

MdNext == AnalyzeSingleGroup

SpecInterpret == MdInit /\ [][MdNext]_vars

\* The service returned a response: the call did not raise
Returned == md_resp # ServiceError

\* The response has a text
IsText == md_resp # ServiceError /\ md_resp # NoContent

\* C12: for every response the reasoning service returns, a missing text among
\* them, a Recommendation is built, with a severity out of LOW, MEDIUM, HIGH,
\* CRITICAL.
C12_InterpretationNeverFails ==
    (md_done /\ Returned) =>
        /\ Len(md_out) = 1
        /\ md_out[1].severity \in SeverityNames

\* C13: a response that parses as an object with the keys issue_summary,
\* recommendation and severity gives a Recommendation with those fields: summary
\* "A", severity HIGH and body "B" for StructuredText.
C13_StructuredResponseUsed ==
    (md_done /\ md_resp = StructuredText) =>
        /\ Len(md_out) = 1
        /\ md_out[1].issue_summary = <<"A">>
        /\ md_out[1].severity = HIGH
        /\ md_out[1].recommendation = <<"B">>

\* "Wifi dropout"
WifiDropout ==
    <<"W", "i", "f", "i", " ", "d", "r", "o", "p", "o", "u", "t">>

C16_DefaultSummaryFromEntry ==
    ( /\ md_done
      /\ IsText
      /\ md_resp # StructuredText
      /\ search_heading(md_resp, 1) = None
      /\ search_heading(md_resp, 2) = None
      /\ search_severity(md_resp) = None )
    => /\ Len(md_out) = 1
       /\ md_out[1].issue_summary = LevelInComponent(md_in[1])
       /\ md_out[1].severity = MEDIUM

-----------------------------------------------------------------------------
(* The tailer started, stopped and meeting I/O errors *)

MaxStops == 2

MaxFaults == 1

\* The log file comes into being
CreateFile ==
    /\ ~exists
    /\ exists' = TRUE
    /\ UNCHANGED <<file, last_position, observing, tasks, processed, recommendations,
                   delivered, ai_calls, start_offset, read_from, truncations, writes,
                   start_result, stops, faults, last_fault, raised,
                   fpVars, grpVars, anVars, mdVars, moreVars>>

\* LogMonitor.start when the file does not exist: lines 64-66 log a warning and
\* return; no observer is created
StartNoFile ==
    /\ ~observing
    /\ ~exists
    /\ start_result' = "no_file"
    /\ UNCHANGED <<file, last_position, observing, tasks, processed, recommendations,
                   delivered, ai_calls, start_offset, read_from, truncations, writes,
                   exists, stops, faults, last_fault, raised,
                   fpVars, grpVars, anVars, mdVars, moreVars>>

\* Stop without observer.stop(): the watch stays
StopKeepsWatching ==
    /\ stops < MaxStops
    /\ stops' = stops + 1
    /\ UNCHANGED <<file, last_position, observing, tasks, processed, recommendations,
                   delivered, ai_calls, start_offset, read_from, truncations, writes,
                   exists, start_result, faults, last_fault, raised,
                   fpVars, grpVars, anVars, mdVars, moreVars>>

\* LogMonitor.stop: if start() created an observer it is stopped and joined, a
\* second time too (both return at once on a thread that has ended); else nothing
\* is done.  The coroutines on the event loop are not touched.
Stop ==
    /\ stops < MaxStops
    /\ observing' = IF start_result = "watching" THEN FALSE ELSE observing
    /\ stops' = stops + 1
    /\ UNCHANGED <<file, last_position, tasks, processed, recommendations,
                   delivered, ai_calls, start_offset, read_from, truncations, writes,
                   exists, start_result, faults, last_fault, raised,
                   fpVars, grpVars, anVars, mdVars, moreVars>>

\* Where an I/O error arises in _process_new_lines: in stat() at line 89, or in
\* open(), seek() or readlines() at lines 98-100
FaultPoints == {"stat", "read"}

\* ProcessFault with last_position set to the size seen before the file is read
ProcessFaultAdvancing ==
    /\ observing
    /\ faults < MaxFaults
    /\ \E at \in FaultPoints :
        LET current_size == Len(file)
            position == SeekPosition(current_size)
        IN  /\ at = "read" => current_size # position
            /\ last_position' = IF at = "stat" THEN last_position ELSE current_size
            /\ last_fault' = [pos |-> IF at = "stat" THEN last_position ELSE position,
                              size |-> current_size]
    /\ faults' = faults + 1
    /\ UNCHANGED <<file, observing, tasks, processed, recommendations,
                   delivered, ai_calls, start_offset, read_from, truncations, writes,
                   exists, start_result, stops, raised,
                   fpVars, grpVars, anVars, mdVars, moreVars>>

\* A notification whose _process_new_lines meets an I/O error: the handler at line
\* 111 logs it and the coroutine ends.  After an error in stat() nothing has
\* changed; after one in the read, last_position is 0 if line 93 reset it, and
\* line 101 was not reached.
ProcessFault ==
    /\ observing
    /\ faults < MaxFaults
    /\ \E at \in FaultPoints :
        LET current_size == Len(file)
            position == SeekPosition(current_size)
        IN  /\ at = "read" => current_size # position
            /\ last_position' = IF at = "stat" THEN last_position ELSE position
            /\ last_fault' = [pos |-> last_position', size |-> current_size]
    /\ faults' = faults + 1
    /\ UNCHANGED <<file, observing, tasks, processed, recommendations,
                   delivered, ai_calls, start_offset, read_from, truncations, writes,
                   exists, start_result, stops, raised,
                   fpVars, grpVars, anVars, mdVars, moreVars>>

LcInit ==
    /\ TailFresh
    /\ exists \in BOOLEAN
    /\ FpIdle /\ GrpIdle /\ AnIdle /\ MdIdle /\ MoreIdle

LcNext ==
    \/ CreateFile
    \/ Start
    \/ StartNoFile
    \/ Stop
    \/ Write
    \/ Truncate
    \/ ProcessNewLines
    \/ ProcessFault
    \/ \E t \in TaskIds : CheckProcessed(t)
    \/ \E t \in TaskIds : MarkProcessed(t)
    \/ \E t \in TaskIds : Analyze(t)
    \/ \E t \in TaskIds : StoreRecommendation(t)

SpecLifecycle == LcInit /\ [][LcNext]_vars

\* C17: start() does not return normally when the log file does not exist: it
\* fails with an I/O error.
C17_StartFailsWithoutFile ==
    start_result = "no_file" => raised

\* C18: stop() releases the watch and raises nothing; called when the watch is
\* already released or was never set up (never started, or start() found no
\* file) it changes nothing; and once the watch is released no notification
\* starts a _process_new_lines, until start() is called again.
C18_StopIdempotent ==
    [][ /\ Stop =>
            /\ ~observing'
            /\ ~raised'
            /\ ~observing =>
                  UNCHANGED <<file, last_position, observing, tasks, processed,
                              recommendations, delivered, ai_calls, start_offset,
                              read_from, truncations, writes, exists, start_result,
                              faults, last_fault, raised>>
        /\ (stops > 0 /\ ~observing) => ~(ProcessNewLines \/ ProcessFault) ]_vars

\* stop() was called twice on a tailer that had been watching and had read
\* lines, and the watch is released.
C18_Witness ==
    /\ stops = 2
    /\ start_result = "watching"
    /\ delivered # <<>>
    /\ ~observing

\* C19: once stop() has returned (and start() was not called again), no
\* _process_new_lines is in progress.
C19_NoOperationAfterStop ==
    (stops > 0 /\ ~observing) => InFlight = {}

\* The parsable lines that stood complete and unread in the file when the last
\* I/O error arose
PendingAtFault ==
    SelectSeq(ReadLines(SubSeq(file, last_fault.pos + 1, last_fault.size), last_fault.pos),
              LAMBDA line : /\ Terminated(line)
                            /\ Strip(line.raw) # <<>>
                            /\ Parses(Strip(line.raw)))

\* C20: a notification that meets an I/O error raises nothing out of the tailer,
\* hands no line to the callback, starts no coroutine work and does not move
\* last_position forward; and (the file only growing, the tailer not stopped)
\* when all notifications after the error are done, every line that was pending
\* at the error has been handed to the callback.
C20_FaultContained ==
    /\ [][ ProcessFault =>
              /\ ~raised'
              /\ delivered' = delivered
              /\ tasks' = tasks
              /\ last_position' <= last_position ]_vars
    /\ []( ~raised )
    /\ []( ( /\ last_fault # NoFault
             /\ truncations = 0
             /\ stops = 0
             /\ observing
             /\ Quiescent )
           => \A k \in 1..Len(PendingAtFault) :
                 \E i \in 1..Len(delivered) : delivered[i] = PendingAtFault[k] )

\* An I/O error arose while a line stood unread in the file, and that line has
\* since been handed to the callback.
C20_Witness ==
    /\ last_fault # NoFault
    /\ truncations = 0
    /\ stops = 0
    /\ observing
    /\ Quiescent
    /\ last_fault.pos < last_fault.size
    /\ Len(PendingAtFault) > 0
    /\ \E i \in 1..Len(delivered) : delivered[i] = PendingAtFault[1]

-----------------------------------------------------------------------------
(* _parse_log_line on one line, character by character *)

DigitChars == <<"0", "1", "2", "3", "4", "5", "6", "7", "8", "9">>

DigitValue(c) == (CHOOSE i \in 1..10 : DigitChars[i] = c) - 1

\* int() of a string of digits
RECURSIVE Number(_)
Number(s) ==
    IF s = <<>> THEN 0
    ELSE 10 * Number(SubSeq(s, 1, Len(s) - 1)) + DigitValue(s[Len(s)])

\* r'\d{4}-\d{2}-\d{2} \d{2}:\d{2}:\d{2}' matches at the start of line
TimestampShape(line) ==
    /\ Len(line) >= 19
    /\ \A i \in 1..19 :
          IF i \in {5, 8} THEN line[i] = "-"
          ELSE IF i = 11 THEN line[i] = " "
          ELSE IF i \in {14, 17} THEN line[i] = ":"
          ELSE line[i] \in Digits

\* r'(?:\.\d{3})?': where group 1 ends.  Without the fraction the next character
\* would be the '.', which no \s+ matches, so the longer match is the only one.
TimestampEnd(line) ==
    IF Len(line) >= 23 /\ line[20] = "." /\ \A i \in 21..23 : line[i] \in Digits
    THEN 23
    ELSE 19

\* r'\s+(\w+)' after the timestamp: where group 2 starts, 0 without a match
LevelStart(line) ==
    LET a == SkipWhitespace(line, TimestampEnd(line) + 1)
    IN  IF a > TimestampEnd(line) + 1 /\ a <= Len(line) /\ line[a] \in WordChars
        THEN a
        ELSE 0

\* r'\s+(.+)' from w on, the end of both patterns: \s+ is greedy and gives
\* characters back until '.', which matches no line break, finds one.  The
\* position where the last group starts, 0 without a match.
MessageStart(line, w) ==
    LET starts == {m \in (w + 1)..SkipWhitespace(line, w) :
                       m <= Len(line) /\ line[m] # NL}
    IN  IF starts = {} THEN 0 ELSE SetMax(starts)

\* The first ']' from q on, 0 when there is none
BracketEnd(line, q) ==
    IF \E k \in q..Len(line) : line[k] = "]"
    THEN SetMin({k \in q..Len(line) : line[k] = "]"})
    ELSE 0

\* The groups of the timestamp and the level, which both patterns begin with
HeadMatches(line) ==
    /\ TimestampShape(line)
    /\ LevelStart(line) > 0

LevelEnd(line) == WordEnd(line, LevelStart(line))

\* self.simple_log_pattern.match(line): no element without a match, else the
\* groups (timestamp_str, level_str, message)
simple_log_pattern(line) ==
    IF HeadMatches(line) /\ MessageStart(line, LevelEnd(line) + 1) > 0
    THEN LET m == MessageStart(line, LevelEnd(line) + 1)
         IN  << [timestamp_str |-> SubSeq(line, 1, TimestampEnd(line)),
                 level_str |-> SubSeq(line, LevelStart(line), LevelEnd(line)),
                 message |-> SubSeq(line, m, LineEnd(line, m))] >>
    ELSE <<>>

\* self.log_pattern.match(line): no element without a match, else the groups
\* (timestamp_str, level_str, thread, component, message)
log_pattern(line) ==
    IF ~HeadMatches(line) THEN <<>>
    ELSE
    LET p == SkipWhitespace(line, LevelEnd(line) + 1)       \* the '('
        threadOk == /\ p > LevelEnd(line) + 1
                    /\ p + 1 <= Len(line)
                    /\ line[p] = "("
                    /\ line[p + 1] \in WordChars
        t == WordEnd(line, p + 1)                            \* end of (\w+)
        b == SkipWhitespace(line, t + 2)                     \* the '['
        bracketOk == /\ t + 1 <= Len(line)
                     /\ line[t + 1] = ")"
                     /\ b > t + 2
                     /\ b <= Len(line)
                     /\ line[b] = "["
        c == BracketEnd(line, b + 1)                         \* the ']'
        m == MessageStart(line, c + 1)
    IN  IF threadOk /\ bracketOk /\ c > b + 1 /\ m > 0
        THEN << [timestamp_str |-> SubSeq(line, 1, TimestampEnd(line)),
                 level_str |-> SubSeq(line, LevelStart(line), LevelEnd(line)),
                 thread |-> SubSeq(line, p + 1, t),
                 component |-> SubSeq(line, b + 1, c - 1),
                 message |-> SubSeq(line, m, LineEnd(line, m))] >>
        ELSE <<>>

LeapYear(y) == y % 4 = 0 /\ (y % 100 # 0 \/ y % 400 = 0)

DaysInMonth(y, m) ==
    IF m = 2 THEN (IF LeapYear(y) THEN 29 ELSE 28)
    ELSE IF m \in {4, 6, 9, 11} THEN 30
    ELSE 31

\* The fields datetime.strptime reads from a string of the patterns' shape, with
\* "%Y-%m-%d %H:%M:%S.%f" if it holds a '.', else with "%Y-%m-%d %H:%M:%S"
TimestampFields(timestamp_str) ==
    [year |-> Number(SubSeq(timestamp_str, 1, 4)),
     month |-> Number(SubSeq(timestamp_str, 6, 7)),
     day |-> Number(SubSeq(timestamp_str, 9, 10)),
     hour |-> Number(SubSeq(timestamp_str, 12, 13)),
     minute |-> Number(SubSeq(timestamp_str, 15, 16)),
     second |-> Number(SubSeq(timestamp_str, 18, 19)),
     microsecond |-> IF Len(timestamp_str) > 19
                     THEN 1000 * Number(SubSeq(timestamp_str, 21, 23))
                     ELSE 0]

\* Whether strptime accepts the fields: otherwise it raises ValueError
ValidTimestamp(f) ==
    /\ f.year >= 1
    /\ f.month \in 1..12
    /\ f.day \in 1..DaysInMonth(f.year, f.month)
    /\ f.hour <= 23
    /\ f.minute <= 59
    /\ f.second <= 59

\* LogMonitor._parse_timestamp: no element when strptime raises, else the datetime
parse_timestamp(timestamp_str) ==
    IF ValidTimestamp(TimestampFields(timestamp_str))
    THEN <<TimestampFields(timestamp_str)>>
    ELSE <<>>

LevelNames ==
    [l \in LogLevels |->
        CASE l = "DEBUG" -> <<"D", "E", "B", "U", "G">>
          [] l = "INFO" -> <<"I", "N", "F", "O">>
          [] l = "WARNING" -> <<"W", "A", "R", "N", "I", "N", "G">>
          [] l = "ERROR" -> <<"E", "R", "R", "O", "R">>
          [] l = "CRITICAL" -> <<"C", "R", "I", "T", "I", "C", "A", "L">>]

\* try: level = LogLevel(level_str.upper()) / except ValueError: level = LogLevel.INFO
LevelOf(level_str) ==
    IF \E l \in LogLevels : LevelNames[l] = upper(level_str)
    THEN CHOOSE l \in LogLevels : LevelNames[l] = upper(level_str)
    ELSE "INFO"

\* LogEntry(timestamp=..., level=..., component=..., message=..., raw_line=...)
TimedLogEntry(timestamp, level, component, message, raw_line) ==
    [timestamp |-> timestamp, level |-> level, component |-> component,
     message |-> message, raw_line |-> raw_line]

\* The groups of the pattern that _parse_log_line uses: log_pattern is tried
\* first, simple_log_pattern only when it does not match
MatchOf(line) ==
    IF log_pattern(line) # <<>> THEN log_pattern(line) ELSE simple_log_pattern(line)

\* The try block of _parse_log_line: it raises (ValueError from _parse_timestamp),
\* or returns a LogEntry, or falls through to 'return None'
ParseTry(line) ==
    IF MatchOf(line) = <<>>
    THEN [raises |-> FALSE, value |-> <<>>]
    ELSE LET g == MatchOf(line)[1]
         IN  IF parse_timestamp(g.timestamp_str) = <<>>
             THEN [raises |-> TRUE, value |-> <<>>]
             ELSE [raises |-> FALSE,
                   value |-> << TimedLogEntry(
                                    parse_timestamp(g.timestamp_str)[1],
                                    LevelOf(g.level_str),
                                    IF log_pattern(line) # <<>> THEN g.component ELSE None,
                                    Strip(g.message),
                                    line) >>]

\* _parse_log_line without its 'except Exception'
ParseLogLineUncaught(line) == ParseTry(line)

\* LogMonitor._parse_log_line: 'except Exception' logs and goes on to 'return None'
ParseLogLine(line) ==
    IF ParseTry(line).raises
    THEN [raises |-> FALSE, value |-> <<>>]
    ELSE ParseTry(line)

\* Timestamps of the patterns' shape that name an instant
PsValidTimestamps ==
    {<<"2", "0", "2", "4", "-", "0", "8", "-", "2", "0", " ", "1", "2", ":", "0", "0", ":", "0", "0">>,
     <<"2", "0", "2", "4", "-", "0", "8", "-", "2", "0", " ", "1", "2", ":", "0", "0", ":", "0", "0", ".", "1", "2", "3">>,
     <<"2", "0", "2", "4", "-", "0", "2", "-", "2", "9", " ", "2", "3", ":", "5", "9", ":", "5", "9">>}

\* Timestamps of the patterns' shape that name no instant: 30 February,
\* 29 February of a common year, hour 24, month 13, year 0, second 60
PsInvalidTimestamps ==
    {<<"2", "0", "2", "4", "-", "0", "2", "-", "3", "0", " ", "1", "2", ":", "0", "0", ":", "0", "0">>,
     <<"2", "0", "2", "3", "-", "0", "2", "-", "2", "9", " ", "1", "2", ":", "0", "0", ":", "0", "0">>,
     <<"2", "0", "2", "4", "-", "0", "8", "-", "2", "0", " ", "2", "4", ":", "0", "0", ":", "0", "0">>,
     <<"2", "0", "2", "4", "-", "1", "3", "-", "0", "1", " ", "1", "2", ":", "0", "0", ":", "0", "0">>,
     <<"0", "0", "0", "0", "-", "0", "8", "-", "2", "0", " ", "1", "2", ":", "0", "0", ":", "0", "0">>,
     <<"2", "0", "2", "4", "-", "0", "8", "-", "2", "0", " ", "1", "2", ":", "0", "0", ":", "6", "0", ".", "5", "0", "0">>}

PsTimestamps == PsValidTimestamps \cup PsInvalidTimestamps

\* Level tokens that name no LogLevel
PsUnknownLevels ==
    {<<"W", "A", "R", "N">>,
     <<"F", "a", "t", "a", "l">>}

\* Level tokens: the five names, one of them in lower case, and the unknown ones
PsLevels ==
    {LevelNames[l] : l \in LogLevels} \cup {<<"e", "r", "r", "o", "r">>} \cup PsUnknownLevels

\* Thread names as Home Assistant logs them
PsThreads ==
    {<<"M", "a", "i", "n", "T", "h", "r", "e", "a", "d">>,
     <<"S", "y", "n", "c", "W", "o", "r", "k", "e", "r", "_", "0">>,
     <<"T", "h", "r", "e", "a", "d", "-", "1">>}

\* Logger names
PsComponents ==
    {<<"t", "e", "s", "t", ".", "c", "o", "m", "p", "o", "n", "e", "n", "t">>,
     <<"c">>}

\* Messages
PsMessages ==
    {<<"T", "e", "s", "t", " ", "e", "r", "r", "o", "r", " ", "m", "e", "s", "s", "a", "g", "e">>,
     <<"x">>,
     <<"a", " ", "[", "b", "]", " ", "c", ":", " ", "d">>}

\* Lines of neither format: no timestamp in front, a timestamp of another shape,
\* text before the timestamp, or nothing after the timestamp or the level
PsOtherLines ==
    {<<>>,
     <<"T", "r", "a", "c", "e", "b", "a", "c", "k", " ", "(", "m", "o", "s", "t", " ", "r", "e", "c", "e", "n", "t", " ", "c", "a", "l", "l", " ", "l", "a", "s", "t", ")", ":">>,
     <<"2", "0", "2", "4", "-", "0", "8", "-", "2", "0", " ", "1", "2", ":", "0", "0", " ", "E", "R", "R", "O", "R", " ", "x">>,
     <<"2", "0", "2", "4", "-", "0", "8", "-", "2", "0", " ", "1", "2", ":", "0", "0", ":", "0", "0", ",", "1", "2", "3", " ", "E", "R", "R", "O", "R", " ", "(", "M", "a", "i", "n", "T", "h", "r", "e", "a", "d", ")", " ", "[", "c", "]", " ", "x">>,
     <<" ", "2", "0", "2", "4", "-", "0", "8", "-", "2", "0", " ", "1", "2", ":", "0", "0", ":", "0", "0", " ", "E", "R", "R", "O", "R", " ", "(", "M", "a", "i", "n", "T", "h", "r", "e", "a", "d", ")", " ", "[", "c", "]", " ", "x">>,
     <<"E", "R", "R", "O", "R", " ", "2", "0", "2", "4", "-", "0", "8", "-", "2", "0", " ", "1", "2", ":", "0", "0", ":", "0", "0", " ", "x">>,
     <<"2", "0", "2", "4", "-", "0", "8", "-", "2", "0", " ", "1", "2", ":", "0", "0", ":", "0", "0">>,
     <<"2", "0", "2", "4", "-", "0", "8", "-", "2", "0", " ", "1", "2", ":", "0", "0", ":", "0", "0", " ", "E", "R", "R", "O", "R">>,
     <<"2", "0", "2", "4", "-", "0", "8", "-", "2", "0", "T", "1", "2", ":", "0", "0", ":", "0", "0", " ", "E", "R", "R", "O", "R", " ", "x">>,
     <<"2", "0", "2", "4", "-", "0", "8", "-", "2", "0", " ", "1", "2", ":", "0", "0", ":", "0", "0", ".", "1", "2", "3", "4", " ", "E", "R", "R", "O", "R", " ", "x">>}

\* 'TIMESTAMP LEVEL (THREAD) [COMPONENT] MESSAGE'
FullLine(ts, lv, th, co, me) ==
    ts \o <<" ">> \o lv \o <<" ", "(">> \o th \o <<")", " ", "[">> \o co
       \o <<"]", " ">> \o me

\* 'TIMESTAMP LEVEL MESSAGE'
SimpleLine(ts, lv, me) == ts \o <<" ">> \o lv \o <<" ">> \o me

\* The lines parsed, each with the fields it was written from
PsInputs ==
    {[format |-> "full", line |-> FullLine(ts, lv, th, co, me), timestamp |-> ts,
      level |-> lv, thread |-> th, component |-> co, message |-> me] :
        ts \in PsTimestamps, lv \in PsLevels, th \in PsThreads,
        co \in PsComponents, me \in PsMessages}
    \cup
    {[format |-> "simple", line |-> SimpleLine(ts, lv, me), timestamp |-> ts,
      level |-> lv, thread |-> <<>>, component |-> <<>>, message |-> me] :
        ts \in PsTimestamps, lv \in PsLevels, me \in PsMessages}
    \cup
    {[format |-> "other", line |-> l, timestamp |-> <<>>, level |-> <<>>,
      thread |-> <<>>, component |-> <<>>, message |-> <<>>] : l \in PsOtherLines}

PsInit ==
    /\ TailIdle /\ FpIdle /\ GrpIdle /\ AnIdle /\ MdIdle
    /\ EnIdle /\ StIdle /\ CfIdle /\ OpIdle
    /\ ps_in \in PsInputs
    /\ ps_out = <<>>
    /\ ps_raised = FALSE
    /\ ps_done = FALSE

\* entry = self._parse_log_line(line)
ParseLine ==
    /\ ~ps_done
    /\ ps_out' = ParseLogLine(ps_in.line).value
    /\ ps_raised' = ParseLogLine(ps_in.line).raises
    /\ ps_done' = TRUE
    /\ UNCHANGED <<ps_in, tailVars, fpVars, grpVars, anVars, mdVars, notPs>>

PsNext == ParseLine

SpecParse == PsInit /\ [][PsNext]_vars

\* C21: log_pattern is tried before simple_log_pattern and the first match wins.
\* Every line 'TIMESTAMP LEVEL (THREAD) [COMPONENT] MESSAGE' parses to an entry
\* with that level, component and message, never to an entry without the
\* component; every line 'TIMESTAMP LEVEL MESSAGE' parses to an entry whose
\* component is None.
C21_FullFormatKeepsComponent ==
    (ps_done /\ ps_in.timestamp \in PsValidTimestamps) =>
        /\ ps_out # <<>>
        /\ ps_in.format = "full" =>
              /\ ps_out[1].component = ps_in.component
              /\ ps_out[1].message = ps_in.message
              /\ (\E l \in LogLevels : LevelNames[l] = ps_in.level) =>
                     LevelNames[ps_out[1].level] = ps_in.level
        /\ ps_in.format = "simple" => ps_out[1].component = None

\* The instants the valid timestamps name
PsInstant(ts) ==
    CASE ts = <<"2", "0", "2", "4", "-", "0", "8", "-", "2", "0", " ", "1", "2", ":", "0", "0", ":", "0", "0">> ->
             [year |-> 2024, month |-> 8, day |-> 20, hour |-> 12, minute |-> 0,
              second |-> 0, microsecond |-> 0]
      [] ts = <<"2", "0", "2", "4", "-", "0", "8", "-", "2", "0", " ", "1", "2", ":", "0", "0", ":", "0", "0", ".", "1", "2", "3">> ->
             [year |-> 2024, month |-> 8, day |-> 20, hour |-> 12, minute |-> 0,
              second |-> 0, microsecond |-> 123000]
      [] ts = <<"2", "0", "2", "4", "-", "0", "2", "-", "2", "9", " ", "2", "3", ":", "5", "9", ":", "5", "9">> ->
             [year |-> 2024, month |-> 2, day |-> 29, hour |-> 23, minute |-> 59,
              second |-> 59, microsecond |-> 0]

\* C22: a line of either format whose level token names no LogLevel is not
\* dropped: it parses to an entry with level INFO that keeps the line's timestamp,
\* component and message.
C22_UnknownLevelIsInfo ==
    (ps_done /\ ps_in.level \in PsUnknownLevels
             /\ ps_in.timestamp \in PsValidTimestamps) =>
        /\ ps_out # <<>>
        /\ ps_out[1].level = "INFO"
        /\ ps_out[1].timestamp = PsInstant(ps_in.timestamp)
        /\ ps_out[1].component =
               (IF ps_in.format = "full" THEN ps_in.component ELSE None)
        /\ ps_out[1].message = ps_in.message

\* C23: _parse_log_line never raises.  A line of neither format, and a line of
\* either format whose timestamp names no instant, gives None: no entry with
\* another timestamp, and a full-format line is not parsed as a simple one.
C23_ParseNeverThrows ==
    ps_done =>
        /\ ~ps_raised
        /\ (ps_in.format = "other" \/ ps_in.timestamp \in PsInvalidTimestamps) =>
               ps_out = <<>>

\* A line that log_pattern matches, with 30 February or the like, gave None
C23_Witness ==
    /\ ps_done
    /\ ps_in.format = "full"
    /\ ps_in.timestamp \in PsInvalidTimestamps
    /\ log_pattern(ps_in.line) # <<>>
    /\ simple_log_pattern(ps_in.line) # <<>>
    /\ ps_out = <<>>

-----------------------------------------------------------------------------
(* _analyze_single_group with the web search failing *)

\* Results of a search: at most max_results entries, each here one token
SearchResults == {<<>>, <<"r1">>, <<"r1", "r2">>}

\* What a search meets: session.get or the reading of the answer raises, the
\* status is not 200, or results are found
SearchOutcomes ==
    {[kind |-> "raise", results |-> <<>>], [kind |-> "status", results |-> <<>>]}
        \cup {[kind |-> "ok", results |-> r] : r \in SearchResults}

\* Where the service as a whole fails: nowhere, when the session is opened
\* (__aenter__), or when it is closed (__aexit__)
WholeOutcomes == {"none", "enter", "exit"}

\* WebSearchService.search_ha_documentation and search_github_issues: the status
\* test and 'except Exception' both return []
search(outcome) ==
    IF outcome.kind = "ok" THEN outcome.results ELSE <<>>

\* WebSearchService.get_contextual_information
get_contextual_information(s) ==
    [documentation |-> search(s.docs), issues |-> search(s.issues)]

EmptyContext == [documentation |-> <<>>, issues |-> <<>>]

\* The try block of lines 120-125
ContextTry(s) ==
    IF s.whole = "none"
    THEN [raises |-> FALSE, value |-> get_contextual_information(s)]
    ELSE [raises |-> TRUE, value |-> EmptyContext]

\* Lines 119-128 without 'except Exception'
ContextualInfoUncaught(s) == ContextTry(s)

\* Lines 119-128: contextual_info for the prompt
ContextualInfo(s) ==
    IF ContextTry(s).raises
    THEN [raises |-> FALSE, value |-> EmptyContext]
    ELSE ContextTry(s)

\* AIAnalyzer._create_analysis_context: what the prompt is written from.  An
\* empty list adds no section.
create_analysis_context(log_entries, contextual_info) ==
    [entries |-> Take(log_entries, 5),
     documentation |-> contextual_info.documentation,
     issues |-> contextual_info.issues]

EnInit ==
    /\ TailIdle /\ FpIdle /\ GrpIdle /\ AnIdle
    /\ PsIdle /\ StIdle /\ CfIdle /\ OpIdle
    /\ md_in \in MdGroups
    /\ md_resp \in Responses
    /\ md_out = <<>>
    /\ md_done = FALSE
    /\ en_search \in [whole : WholeOutcomes, docs : SearchOutcomes, issues : SearchOutcomes]
    /\ en_info = EmptyContext
    /\ en_context = [entries |-> <<>>, documentation |-> <<>>, issues |-> <<>>]
    /\ en_calls = 0
    /\ en_raised = FALSE
    /\ en_pc = "start"

\* ai_analyzer.py lines 112-128
GetContext ==
    /\ en_pc = "start"
    /\ en_info' = ContextualInfo(en_search).value
    /\ en_raised' = ContextualInfo(en_search).raises
    /\ en_pc' = IF ContextualInfo(en_search).raises THEN "done" ELSE "context"
    /\ UNCHANGED <<en_search, en_context, en_calls, mdVars, tailVars,
                   fpVars, grpVars, anVars, notEn>>

\* ai_analyzer.py lines 131-182
CallService ==
    /\ en_pc = "context"
    /\ en_context' = create_analysis_context(md_in, en_info)
    /\ en_calls' = en_calls + 1
    /\ md_out' = analyze_single_group(md_in, md_resp)
    /\ md_done' = TRUE
    /\ en_pc' = "done"
    /\ UNCHANGED <<en_search, en_info, en_raised, md_in, md_resp, tailVars,
                   fpVars, grpVars, anVars, notEn>>

EnNext == GetContext \/ CallService

SpecEnrich == EnInit /\ [][EnNext]_vars

\* C24: when the web search fails as a whole, or for the documentation or the
\* issues only, _analyze_single_group goes on with an empty list for what failed
\* and the results of what did not: the reasoning service is still called, once,
\* and a response with a text still gives a Recommendation.
C24_SearchFailureContained ==
    en_pc = "done" =>
        /\ ~en_raised
        /\ en_calls = 1
        /\ en_search.whole # "none" => en_context.documentation = <<>> /\ en_context.issues = <<>>
        /\ en_search.docs.kind # "ok" => en_context.documentation = <<>>
        /\ en_search.issues.kind # "ok" => en_context.issues = <<>>
        /\ (en_search.whole = "none" /\ en_search.docs.kind = "ok") =>
               en_context.documentation = en_search.docs.results
        /\ (en_search.whole = "none" /\ en_search.issues.kind = "ok") =>
               en_context.issues = en_search.issues.results
        /\ IsText => md_out # <<>>

\* The documentation search raised, the issue search found something, and a
\* Recommendation was returned
C24_Witness ==
    /\ en_pc = "done"
    /\ en_search.whole = "none"
    /\ en_search.docs.kind = "raise"
    /\ en_search.issues.results # <<>>
    /\ en_context.issues # <<>>
    /\ md_out # <<>>

-----------------------------------------------------------------------------
(* The recommendations table under the pipeline, manual analysis, resolving and cleanup *)

MaxRecommendations == 3

StEntries ==
    { LogEntry("ERROR", <<"c">>, <<"x">>),
      LogEntry("WARNING", None, <<"x">>),
      LogEntry("INFO", <<"c">>, <<"x">>) }

\* What read_recent_logs returns to trigger_analysis
StBatches ==
    { <<e>> : e \in StEntries } \cup { <<e, f>> : e \in StEntries, f \in StEntries }

\* Database.store_recommendation: INSERT INTO recommendations, the id being the
\* position of the row
store_recommendation(table, recommendation) == Append(table, recommendation)

RECURSIVE StoreAll(_, _)
\* for recommendation in recommendations: store_recommendation(recommendation)
StoreAll(table, recs) ==
    IF recs = <<>> THEN table
    ELSE StoreAll(store_recommendation(table, Head(recs)), Tail(recs))

\* Database.mark_resolved: UPDATE recommendations SET resolved = TRUE WHERE id = ?
mark_resolved(table, recommendation_id) ==
    [i \in 1..Len(table) |->
        IF i = recommendation_id THEN [table[i] EXCEPT !.resolved = TRUE] ELSE table[i]]

\* A cleanup that deletes the resolved recommendations with the old log rows
cleanup_old_logs_and_resolved(db, old) ==
    [processed_logs |-> db.processed_logs \ old,
     recommendations |-> SelectSeq(db.recommendations, LAMBDA r : ~r.resolved)]

\* Database.cleanup_old_logs: DELETE FROM processed_logs WHERE processed_at is
\* older than the retention period, old being the hashes of those rows
cleanup_old_logs(db, old) ==
    [processed_logs |-> db.processed_logs \ old,
     recommendations |-> db.recommendations]

RECURSIVE AnalyzeGroups(_, _, _)
\* The loop of analyze_log_entries from group j on, responses[j] being what the
\* reasoning service does for group j
AnalyzeGroups(groups, responses, j) ==
    IF j > Len(groups) THEN <<>>
    ELSE analyze_single_group(groups[j], responses[j])
            \o AnalyzeGroups(groups, responses, j + 1)

\* AIAnalyzer.analyze_log_entries
analyze_log_entries(log_entries, responses) ==
    LET groups == group_similar_entries(log_entries)
    IN  AnalyzeGroups([j \in 1..Len(groups) |-> GroupEntries(log_entries, groups[j])],
                      responses, 1)

StInit ==
    /\ TailIdle /\ FpIdle /\ GrpIdle /\ AnIdle /\ MdIdle
    /\ PsIdle /\ EnIdle /\ CfIdle /\ OpIdle
    /\ st_cleaned = FALSE

\* HALogDebuggerAI._process_log_entry run to its end for one entry
ProcessLogEntry ==
    \E log_entry \in StEntries, response \in Responses :
        LET log_hash == generate_log_hash(log_entry)
            recs == IF log_entry.level \in ai_analysis_levels
                    THEN analyze_log_entries(<<log_entry>>, <<response>>)
                    ELSE <<>>
        IN  /\ capture_all_logs \/ log_entry.level \in ai_analysis_levels
            /\ ~is_log_processed(log_hash)
            /\ Len(recommendations) + Len(recs) <= MaxRecommendations
            /\ processed' = processed \cup {log_hash}
            /\ recommendations' = StoreAll(recommendations, recs)
            /\ UNCHANGED <<file, last_position, observing, tasks, delivered, ai_calls,
                           start_offset, read_from, truncations, writes, lcVars,
                           st_cleaned, fpVars, grpVars, anVars, mdVars, notSt>>

\* POST /api/analyze
TriggerAnalysis ==
    \E recent_logs \in StBatches, responses \in [1..2 -> Responses] :
        LET error_logs == SelectSeq(recent_logs,
                                    LAMBDA e : e.level \in {"WARNING", "ERROR", "CRITICAL"})
            recs == IF error_logs = <<>> THEN <<>>
                    ELSE analyze_log_entries(error_logs, responses)
        IN  /\ Len(recommendations) + Len(recs) <= MaxRecommendations
            /\ recommendations' = StoreAll(recommendations, recs)
            /\ UNCHANGED <<file, last_position, observing, tasks, processed, delivered,
                           ai_calls, start_offset, read_from, truncations, writes,
                           lcVars, st_cleaned, fpVars, grpVars, anVars, mdVars, notSt>>

\* POST /api/recommendations/{recommendation_id}/resolve, also for an id no row has
ResolveRecommendation ==
    \E recommendation_id \in 1..(MaxRecommendations + 1) :
        /\ recommendations' = mark_resolved(recommendations, recommendation_id)
        /\ UNCHANGED <<file, last_position, observing, tasks, processed, delivered,
                       ai_calls, start_offset, read_from, truncations, writes,
                       lcVars, st_cleaned, fpVars, grpVars, anVars, mdVars, notSt>>

\* The daily cleanup of main.py, any of the rows being older than the retention period
CleanupOldLogs ==
    \E old \in SUBSET processed :
        LET db == cleanup_old_logs([processed_logs |-> processed,
                                    recommendations |-> recommendations], old)
        IN  /\ processed' = db.processed_logs
            /\ recommendations' = db.recommendations
            /\ st_cleaned' = (st_cleaned \/ old # {})
            /\ UNCHANGED <<file, last_position, observing, tasks, delivered,
                           ai_calls, start_offset, read_from, truncations, writes,
                           lcVars, fpVars, grpVars, anVars, mdVars, notSt>>

StNext ==
    \/ ProcessLogEntry
    \/ TriggerAnalysis
    \/ ResolveRecommendation
    \/ CleanupOldLogs

SpecStore == StInit /\ [][StNext]_vars

\* A row with its resolved column left out
Unflagged(row) == [row EXCEPT !.resolved = FALSE]

\* The rows that a step flips from unresolved to resolved
NewlyResolved ==
    {i \in 1..Len(recommendations) :
        ~recommendations[i].resolved /\ recommendations'[i].resolved}

\* C25: every recommendation is stored with resolved = FALSE.  Whatever the
\* pipeline, manual analyses, resolve requests and cleanups do, no row of the
\* recommendations table is deleted, nothing but resolved changes in a row, and
\* resolved goes from FALSE to TRUE only, in a resolve request only.
C25_RecommendationsOnlyResolve ==
    [][ /\ Len(recommendations') >= Len(recommendations)
        /\ \A i \in 1..Len(recommendations) :
              /\ Unflagged(recommendations'[i]) = Unflagged(recommendations[i])
              /\ recommendations[i].resolved => recommendations'[i].resolved
        /\ \A i \in (Len(recommendations) + 1)..Len(recommendations') :
              ~recommendations'[i].resolved
        /\ NewlyResolved # {} => ResolveRecommendation ]_vars

\* The table is full, with a resolved and an unresolved row, after a cleanup
\* deleted rows of processed_logs
C25_Witness ==
    /\ Len(recommendations) = MaxRecommendations
    /\ \E i \in 1..Len(recommendations) : recommendations[i].resolved
    /\ \E i \in 1..Len(recommendations) : ~recommendations[i].resolved
    /\ st_cleaned
    /\ processed # {}

-----------------------------------------------------------------------------
(* The pipeline with a callback that meets an exception *)

MaxEntryFaults == 1

\* The steps of _process_log_entry that await the database or the analyzer
FaultSteps == {"check", "mark", "analyze", "store"}

\* What entry_faults keeps of a failing callback of coroutine t: its line, and
\* the offset at which the batch of that line ends
FaultOf(t) ==
    LET lines == tasks[t].new_lines
        last == lines[Len(lines)]
    IN  [line |-> Head(lines), batch_end |-> last.off + Len(last.raw)]

\* The step coroutine t is at raises, and _process_log_entry has no handler: the
\* exception leaves the callback and the loop, and the handler of
\* _process_new_lines (log_monitor.py line 111) ends the coroutine
EntryFaultUncaught(t) ==
    /\ tasks[t].pc \in FaultSteps
    /\ Len(entry_faults) < MaxEntryFaults
    /\ entry_faults' = Append(entry_faults, FaultOf(t))
    /\ tasks' = [tasks EXCEPT ![t] = IdleTask]
    /\ UNCHANGED <<file, last_position, observing, processed, recommendations,
                   delivered, ai_calls, start_offset, read_from, truncations, writes,
                   lcVars, fpVars, grpVars, anVars, mdVars, notCf>>

\* The step coroutine t is at raises (the database or the analyzer fails): the
\* handler of main.py lines 126-127 logs the error, the callback returns, and the
\* loop of _process_new_lines goes on with the next line
EntryFault(t) ==
    /\ tasks[t].pc \in FaultSteps
    /\ Len(entry_faults) < MaxEntryFaults
    /\ entry_faults' = Append(entry_faults, FaultOf(t))
    /\ Resume(t, Tail(tasks[t].new_lines))
    /\ UNCHANGED <<file, last_position, observing, processed, recommendations,
                   ai_calls, start_offset, read_from, truncations, writes,
                   lcVars, fpVars, grpVars, anVars, mdVars, notCf>>

CfNext ==
    \/ Start
    \/ Write
    \/ Truncate
    \/ ProcessNewLines
    \/ \E t \in TaskIds : CheckProcessed(t)
    \/ \E t \in TaskIds : MarkProcessed(t)
    \/ \E t \in TaskIds : Analyze(t)
    \/ \E t \in TaskIds : StoreRecommendation(t)
    \/ \E t \in TaskIds : EntryFault(t)

SpecContain == TailInit /\ [][CfNext]_vars

\* The lines of a batch that the callback is called on
Deliverable(lines) ==
    SelectSeq(lines, LAMBDA line : /\ Strip(line.raw) # <<>>
                                   /\ Parses(Strip(line.raw)))

\* C26: when the handling of one entry fails at the lookup or the insert in the
\* processed set, at the analysis or at the storing of the recommendation, no
\* exception leaves the coroutine, the lines that follow in the batch are still
\* handed to the callback in their order, the other coroutines are not touched
\* and the observer keeps watching.
C26_EntryFailureContained ==
    [][ \A t \in TaskIds :
          EntryFault(t) =>
              LET rest == Tail(tasks[t].new_lines)
                  added == SubSeq(delivered', Len(delivered) + 1, Len(delivered'))
                  left == IF tasks'[t].pc = "idle" THEN <<>>
                          ELSE Tail(tasks'[t].new_lines)
              IN  /\ ~raised'
                  /\ observing' = observing
                  /\ \A u \in TaskIds \ {t} : tasks'[u] = tasks[u]
                  /\ added \o Deliverable(left) = Deliverable(rest)
                  /\ tasks'[t].pc # "idle" =>
                        /\ tasks'[t].pc = "check"
                        /\ added # <<>>
                        /\ Head(tasks'[t].new_lines) = added[Len(added)] ]_vars

\* While the file only grew, a callback failed, a later line of its batch was
\* handed to the callback, and so was a line that a later notification read
C26_Witness ==
    /\ truncations = 0
    /\ entry_faults # <<>>
    /\ \E i \in 1..Len(delivered) :
          /\ delivered[i].off > entry_faults[1].line.off
          /\ delivered[i].off < entry_faults[1].batch_end
    /\ \E j \in 1..Len(delivered) : delivered[j].off >= entry_faults[1].batch_end

-----------------------------------------------------------------------------
(* The tailer when the log is replaced and grows before the next notification *)

\* The log is rotated while the observer watches: an empty file is in its place.
\* read_from = -2 says that no notification has been processed since.
Rotate ==
    /\ observing
    /\ exists
    /\ truncations < MaxTruncations
    /\ file # <<>>
    /\ file' = <<>>
    /\ truncations' = truncations + 1
    /\ read_from' = -2
    /\ UNCHANGED <<last_position, observing, tasks, processed, recommendations,
                   delivered, ai_calls, start_offset, writes,
                   lcVars, fpVars, grpVars, anVars, mdVars, moreVars>>

RotNext ==
    \/ Start
    \/ Write
    \/ Rotate
    \/ ProcessNewLines
    \/ \E t \in TaskIds : CheckProcessed(t)
    \/ \E t \in TaskIds : MarkProcessed(t)
    \/ \E t \in TaskIds : Analyze(t)
    \/ \E t \in TaskIds : StoreRecommendation(t)

SpecRotate == TailInit /\ [][RotNext]_vars

\* The lines of seq as a set
LinesOf(seq) == {seq[i] : i \in 1..Len(seq)}

\* C34: the first notification processed after the log was replaced, whatever the
\* new file has grown to by then, reads it from offset 0 to its end, and every
\* complete line of it that parses is handed to the callback or is waiting for it
\* in a coroutine.
C34_NewContentReadFromStart ==
    [][ (ProcessNewLines /\ read_from = -2 /\ file # <<>>) =>
            LET added == SubSeq(delivered', Len(delivered) + 1, Len(delivered'))
                waiting == UNION {LinesOf(tasks'[t].new_lines) : t \in TaskIds}
                content == ReadLines(file', 0)
            IN  /\ read_from' = 0
                /\ last_position' = Len(file')
                /\ \A k \in 1..Len(content) :
                      ( /\ Terminated(content[k])
                        /\ Strip(content[k].raw) # <<>>
                        /\ Parses(Strip(content[k].raw)) )
                      => content[k] \in LinesOf(added) \cup waiting ]_vars

-----------------------------------------------------------------------------
(* The tailer with a callback that raises *)

\* The callback that coroutine t awaits at log_monitor.py line 109 raises: the
\* exception leaves the for loop, the handler of line 111 logs it, and the
\* coroutine ends with the lines it had read and not yet handed on
CallbackRaises(t) ==
    /\ tasks[t].pc \in FaultSteps
    /\ Len(entry_faults) < MaxEntryFaults
    /\ entry_faults' = Append(entry_faults, FaultOf(t))
    /\ tasks' = [tasks EXCEPT ![t] = IdleTask]
    /\ UNCHANGED <<file, last_position, observing, processed, recommendations,
                   delivered, ai_calls, start_offset, read_from, truncations, writes,
                   lcVars, fpVars, grpVars, anVars, mdVars, notCf>>

RaiseNext ==
    \/ Start
    \/ Write
    \/ Truncate
    \/ ProcessNewLines
    \/ \E t \in TaskIds : CheckProcessed(t)
    \/ \E t \in TaskIds : MarkProcessed(t)
    \/ \E t \in TaskIds : Analyze(t)
    \/ \E t \in TaskIds : StoreRecommendation(t)
    \/ \E t \in TaskIds : CallbackRaises(t)

SpecRaise == TailInit /\ [][RaiseNext]_vars

\* C35: when the callback raises on a line, the lines that were read after it in
\* the same cycle are not lost: they are handed to the callback, in their order,
\* by the coroutine that read them, or last_position is not past them, so that a
\* later notification reads them again.
C35_ReadLinesNotLost ==
    [][ \A t \in TaskIds :
          CallbackRaises(t) =>
              LET rest == Tail(tasks[t].new_lines)
                  added == SubSeq(delivered', Len(delivered) + 1, Len(delivered'))
                  left == IF tasks'[t].pc = "idle" THEN <<>>
                          ELSE Tail(tasks'[t].new_lines)
              IN  \/ added \o Deliverable(left) = Deliverable(rest)
                  \/ rest # <<>> /\ last_position' <= Head(rest).off ]_vars

-----------------------------------------------------------------------------
(* _process_log_entry under each configuration *)

\* os.getenv("AI_ANALYSIS_LEVELS", "WARNING,ERROR,CRITICAL").split(","), as the set
\* of the level names it lists: the default, one level, every level, and no level
\* (the empty string splits into [""], which no level equals)
LevelLists == { ai_analysis_levels, {"ERROR"}, LogLevels, {} }

Configs ==
    { [capture_all_logs |-> c, ai_analysis_levels |-> l] :
          c \in BOOLEAN, l \in LevelLists }

PlLevels == {"DEBUG", "INFO", "WARNING", "ERROR"}

\* One entry of each of these levels
PlEntries == { LogEntry(l, <<"c">>, <<"x">>) : l \in PlLevels }

\* _process_log_entry with the test of line 117 left out: every entry that is
\* marked is analysed
process_log_entry_any_level(cfg, db, log_entry, response) ==
    LET log_hash == generate_log_hash(log_entry)
    IN  IF ~cfg.capture_all_logs /\ log_entry.level \notin cfg.ai_analysis_levels
        THEN db
        ELSE IF log_hash \in db.processed_logs
        THEN db
        ELSE [processed_logs |-> db.processed_logs \cup {log_hash},
              recommendations |->
                  StoreAll(db.recommendations,
                           analyze_log_entries(<<log_entry>>, <<response>>)),
              ai_calls |-> db.ai_calls + 1]

\* HALogDebuggerAI._process_log_entry run to its end for one entry: the database
\* and the number of reasoning-service calls after it, response being what the
\* service does if it is called.  analyze_log_entries([log_entry]) has one group
\* and calls the service once.
process_log_entry(cfg, db, log_entry, response) ==
    LET log_hash == generate_log_hash(log_entry)
    IN  IF ~cfg.capture_all_logs /\ log_entry.level \notin cfg.ai_analysis_levels
        THEN db
        ELSE IF log_hash \in db.processed_logs
        THEN db
        ELSE IF log_entry.level \in cfg.ai_analysis_levels
        THEN [processed_logs |-> db.processed_logs \cup {log_hash},
              recommendations |->
                  StoreAll(db.recommendations,
                           analyze_log_entries(<<log_entry>>, <<response>>)),
              ai_calls |-> db.ai_calls + 1]
        ELSE [db EXCEPT !.processed_logs = @ \cup {log_hash}]

\* The application as constructed under any configuration
PlInit ==
    /\ TailIdle /\ FpIdle /\ GrpIdle /\ AnIdle /\ MdIdle
    /\ PsIdle /\ EnIdle /\ StIdle /\ CfIdle
    /\ config \in Configs
    /\ pl_entry = <<>>
    /\ rt_request = 0
    /\ rt_response = NoResponse

\* The tailer hands an entry to _process_log_entry
ProcessEntry ==
    \E log_entry \in PlEntries, response \in Responses :
        LET db == process_log_entry(config,
                                    [processed_logs |-> processed,
                                     recommendations |-> recommendations,
                                     ai_calls |-> ai_calls],
                                    log_entry, response)
        IN  /\ Len(db.recommendations) <= MaxRecommendations
            /\ pl_entry' = <<log_entry>>
            /\ processed' = db.processed_logs
            /\ recommendations' = db.recommendations
            /\ ai_calls' = db.ai_calls
            /\ UNCHANGED <<file, last_position, observing, tasks, delivered,
                           start_offset, read_from, truncations, writes, lcVars,
                           fpVars, grpVars, anVars, mdVars, psVars, enVars, stVars,
                           cfVars, config, rt_request, rt_response>>

PlNext == ProcessEntry

SpecConfig == PlInit /\ [][PlNext]_vars

\* C36: the reasoning service is called only for an entry whose level is one of
\* the configured analysis levels.  An entry of another level causes no call and
\* no recommendation; it leaves the processed set as it is when capture_all_logs
\* is off, and is in the processed set afterwards when capture_all_logs is on.
C36_OnlyAnalysisLevelsAnalysed ==
    [][ ProcessEntry =>
          LET log_entry == pl_entry'[1]
          IN  /\ ai_calls' # ai_calls => log_entry.level \in config.ai_analysis_levels
              /\ log_entry.level \notin config.ai_analysis_levels =>
                    /\ ai_calls' = ai_calls
                    /\ recommendations' = recommendations
                    /\ ~config.capture_all_logs => processed' = processed
                    /\ config.capture_all_logs =>
                          processed' = processed \cup {generate_log_hash(log_entry)} ]_vars

\* With capture_all_logs on and ERROR the one analysis level, the ERROR entry was
\* analysed and the WARNING entry, handed over last, is marked and not analysed
C36_Witness ==
    /\ config = [capture_all_logs |-> TRUE, ai_analysis_levels |-> {"ERROR"}]
    /\ pl_entry = << LogEntry("WARNING", <<"c">>, <<"x">>) >>
    /\ generate_log_hash(pl_entry[1]) \in processed
    /\ Cardinality(processed) = 2
    /\ ai_calls = 1
    /\ Len(recommendations) = 1

-----------------------------------------------------------------------------
(* POST /api/recommendations/{recommendation_id}/resolve and its response *)

\* HTTPException(status_code, detail), and a response of the route
HTTPException(status_code, detail) == [status_code |-> status_code, detail |-> detail]

\* cursor.rowcount > 0 after the UPDATE of mark_resolved: a row has the id
RowExists(table, recommendation_id) == recommendation_id \in 1..Len(table)

\* The try block of resolve_recommendation, lines 88-92: what it returns, or the
\* exception it raises
ResolveTry(table, recommendation_id) ==
    IF RowExists(table, recommendation_id)
    THEN [raises |-> FALSE,
          value |-> HTTPException(200, "Recommendation marked as resolved")]
    ELSE [raises |-> TRUE,
          value |-> HTTPException(404, "Recommendation not found")]

\* WebInterface.resolve_recommendation: HTTPException is an Exception, so the
\* handler of line 93 takes what line 92 raises and raises the 500 of line 95
resolve_recommendation(table, recommendation_id) ==
    LET try == ResolveTry(table, recommendation_id)
    IN  IF try.raises
        THEN HTTPException(500, "Failed to resolve recommendation")
        ELSE try.value

\* A resolve request, also for an id no row has
ResolveRoute ==
    \E recommendation_id \in 1..(MaxRecommendations + 1) :
        /\ rt_request' = recommendation_id
        /\ rt_response' = resolve_recommendation(recommendations, recommendation_id)
        /\ recommendations' = mark_resolved(recommendations, recommendation_id)
        /\ UNCHANGED <<file, last_position, observing, tasks, processed, delivered,
                       ai_calls, start_offset, read_from, truncations, writes,
                       lcVars, fpVars, grpVars, anVars, mdVars, psVars, enVars,
                       stVars, cfVars, config, pl_entry>>

RtNext ==
    \/ ProcessLogEntry
    \/ TriggerAnalysis
    \/ ResolveRoute

SpecResolve == StInit /\ [][RtNext]_vars

\* C37: a resolve request for an id that no recommendation has is answered with
\* 404 'Recommendation not found' and changes no recommendation; a request for
\* the id of a stored recommendation sets its resolved flag and reports success.
C37_ResolveUnknownIs404 ==
    [][ ResolveRoute =>
          IF rt_request' \in 1..Len(recommendations)
          THEN /\ rt_response'.status_code = 200
               /\ recommendations'[rt_request'].resolved
               /\ \A i \in 1..Len(recommendations) :
                     Unflagged(recommendations'[i]) = Unflagged(recommendations[i])
          ELSE /\ rt_response' = HTTPException(404, "Recommendation not found")
               /\ recommendations' = recommendations ]_vars

-----------------------------------------------------------------------------
(* POST /api/analyze beside the running tailer *)

\* read_recent_logs(lines=50), as trigger_analysis calls it
RecentLines == 50

\* all_lines[-lines:] if len(all_lines) > lines else all_lines
LastLines(all_lines, lines) ==
    IF Len(all_lines) > lines
    THEN SubSeq(all_lines, Len(all_lines) - lines + 1, Len(all_lines))
    ELSE all_lines

RECURSIVE ParseAll(_)
\* The loop of read_recent_logs: the entries of the lines that are not blank and
\* that parse
ParseAll(recent_lines) ==
    IF recent_lines = <<>> THEN <<>>
    ELSE LET line == Strip(Head(recent_lines).raw)
         IN  IF line = <<>> \/ ~Parses(line)
             THEN ParseAll(Tail(recent_lines))
             ELSE <<parse_log_line(line)>> \o ParseAll(Tail(recent_lines))

\* read_recent_logs keeping the position its read ended at as last_position
read_recent_logs_tracking(monitor, lines) ==
    [entries |-> IF monitor.exists
                 THEN ParseAll(LastLines(ReadLines(monitor.file, 0), lines))
                 ELSE <<>>,
     monitor |-> IF monitor.exists
                 THEN [monitor EXCEPT !.last_position = Len(monitor.file)]
                 ELSE monitor]

\* LogMonitor.read_recent_logs: the entries it returns and the monitor after it.
\* The file is opened and read on a handle of its own.
read_recent_logs(monitor, lines) ==
    [entries |-> IF monitor.exists
                 THEN ParseAll(LastLines(ReadLines(monitor.file, 0), lines))
                 ELSE <<>>,
     monitor |-> monitor]

\* WebInterface.trigger_analysis with the log monitor and the analyzer in place
ManualAnalysis ==
    LET read == read_recent_logs([file |-> file, exists |-> exists,
                                  last_position |-> last_position], RecentLines)
        error_logs == SelectSeq(read.entries,
                                LAMBDA e : e.level \in {"WARNING", "ERROR", "CRITICAL"})
        groups == group_similar_entries(error_logs)
    IN  \E responses \in [1..Len(groups) -> Responses] :
            LET recs == IF error_logs = <<>> THEN <<>>
                        ELSE analyze_log_entries(error_logs, responses)
            IN  /\ Len(recommendations) + Len(recs) <= MaxRecommendations
                /\ recommendations' = StoreAll(recommendations, recs)
                /\ last_position' = read.monitor.last_position
                /\ UNCHANGED <<file, observing, tasks, processed, delivered,
                               ai_calls, start_offset, read_from, truncations, writes,
                               lcVars, fpVars, grpVars, anVars, mdVars, moreVars>>

ManNext ==
    \/ Start
    \/ Write
    \/ Truncate
    \/ ProcessNewLines
    \/ \E t \in TaskIds : CheckProcessed(t)
    \/ \E t \in TaskIds : MarkProcessed(t)
    \/ \E t \in TaskIds : Analyze(t)
    \/ \E t \in TaskIds : StoreRecommendation(t)
    \/ ManualAnalysis

SpecManual == TailInit /\ [][ManNext]_vars

\* C38: a manual analysis, with the read_recent_logs it makes, leaves
\* last_position, the processed set, the file, the tailer's coroutines and what
\* was delivered as they are, and only appends rows to the recommendations.
C38_ManualAnalysisLeavesTailState ==
    [][ ManualAnalysis =>
          /\ last_position' = last_position
          /\ processed' = processed
          /\ file' = file
          /\ tasks' = tasks
          /\ delivered' = delivered
          /\ Len(recommendations') >= Len(recommendations)
          /\ SubSeq(recommendations', 1, Len(recommendations)) = recommendations ]_vars

\* A manual analysis stored a recommendation for a line the tailer had not read
\* yet, and the tailer then read that line and handed it to the callback
C38_Witness ==
    /\ observing
    /\ ai_calls = 0
    /\ recommendations # <<>>
    /\ processed = {}
    /\ delivered # <<>>
    /\ InFlight # {}

=============================================================================
